---- MODULE Spec2Model ----
(***************************************************************************)
(* A model of the ledger's storage and query engine: the accounts and      *)
(* transactions tables with the schema's constraints, the repository       *)
(* functions of db/queries.ts, and the screens that call them.             *)
(***************************************************************************)
EXTENDS Integers, Sequences, FiniteSets, TLC

\* Bounds of the model.
MaxAccounts == 2
MaxTransactions == 2
MaxFieldTransactions == 3
MaxClock == 1
MaxDate == 2
MaxListTransactions == 3
MaxHandles == 2
MaxSupplied == 1
MaxHookCalls == 2
MaxHookAccounts == 1

VARIABLES accounts, transactions, nextId, clock, last, edit,
          db, conn, schema, calls, hook, hookCalls, editTx, reversing

vars == <<accounts, transactions, nextId, clock, last, edit,
          db, conn, schema, calls, hook, hookCalls, editTx, reversing>>

\* The state of one useAccounts instance and its calls in progress, the state
\* of the edit-transaction screen, and the reverseTransaction call in progress.
hookVars == <<hook, hookCalls, editTx, reversing>>

\* The database module's variable, its connections, the schema objects and
\* version marker of the store, and the getDatabase calls in progress.
dbVars == <<db, conn, schema, calls>>

----------------------------------------------------------------------------
\* Values.

\* An identifier is the table it was generated for and a serial number.
\* No account selected in a picker (JS null):
NoId == <<"none", 0>>

\* Identifiers no row ever had.
UnknownAccountId == <<"account", 0>>

UnknownTransactionId == <<"transaction", 0>>

\* A note column / note field: SQL NULL (JS null), or a text. A text is a
\* fixed part and, for the default reversal note, the id printed into it.
NULL == [null |-> TRUE, text |-> "", ref |-> NoId]

Str(s) == [null |-> FALSE, text |-> s, ref |-> NoId]

\* An argument that was not passed (JS undefined).
Undefined == [null |-> TRUE, text |-> "undefined", ref |-> NoId]

\* types/index.ts AccountType
AccountType == {"internal", "external"}

----------------------------------------------------------------------------
\* JSON text of a list of strings. A string is a sequence of characters, a
\* text is a sequence of characters.

LB == "["

RB == "]"

QT == "\""

BS == "\\"

CM == ","

RECURSIVE EscapeString(_)
EscapeString(s) ==
  IF s = <<>> THEN <<>>
  ELSE (IF Head(s) \in {QT, BS} THEN <<BS, Head(s)>> ELSE <<Head(s)>>)
       \o EscapeString(Tail(s))

QuoteString(s) == <<QT>> \o EscapeString(s) \o <<QT>>

RECURSIVE JoinQuoted(_)
JoinQuoted(list) ==
  IF list = <<>> THEN <<>>
  ELSE IF Len(list) = 1 THEN QuoteString(list[1])
  ELSE QuoteString(list[1]) \o <<CM>> \o JoinQuoted(Tail(list))

JSONstringify(list) == <<LB>> \o JoinQuoted(list) \o <<RB>>

\* Reads a string whose opening quote is before position i.
RECURSIVE ParseString(_, _, _)
ParseString(text, i, acc) ==
  IF text[i] = QT THEN [value |-> acc, next |-> i + 1]
  ELSE IF text[i] = BS THEN ParseString(text, i + 2, Append(acc, text[i + 1]))
  ELSE ParseString(text, i + 1, Append(acc, text[i]))

RECURSIVE ParseElements(_, _, _)
ParseElements(text, i, acc) ==
  IF text[i] = RB THEN acc
  ELSE IF text[i] = CM THEN ParseElements(text, i + 1, acc)
  ELSE LET s == ParseString(text, i + 1, <<>>)
       IN ParseElements(text, s.next, Append(acc, s.value))

JSONparse(text) == ParseElements(text, 2, <<>>)

----------------------------------------------------------------------------
\* The store: rows, constraints, aggregates.

AccountIdsStored == {a.id : a \in accounts}

TransactionIdsStored == {t.id : t \in transactions}

\* utils/id generateId: an identifier no row has had. nextId counts the
\* identifiers each table has used.
GenerateId(table) == <<table, nextId[table]>>

\* Fewer than max identifiers of the table have been used.
IdsLeft(table, max) == nextId[table] <= max

IdUsed(table) == [nextId EXCEPT ![table] = @ + 1]

\* utils/date.ts now()
Now == clock

\* A schema whose CHECK admits a zero amount.
AmountCheckNonNegative(amount) == amount >= 0

\* A schema with no CHECK on the amount.
AmountCheckAbsent(amount) == TRUE

\* schema: amount INTEGER NOT NULL CHECK(amount > 0)
AmountCheck(amount) == amount > 0

\* A connection on which PRAGMA foreign_keys was never set.
ForeignKeyUnenforced(accountId) == TRUE

\* schema: REFERENCES accounts(id), with PRAGMA foreign_keys = ON
ForeignKeyCheck(accountId) == accountId \in AccountIdsStored

\* schema: type TEXT NOT NULL CHECK(type IN ('internal', 'external'))
TypeCheck(type) == type \in AccountType

\* Constraints with no foreign key on to_account_id.
TransactionRowAcceptedFromOnly(row) ==
  /\ AmountCheck(row.amount)
  /\ ForeignKeyCheck(row.from_account_id)

\* The constraints a transactions row must meet for an INSERT or UPDATE of it
\* to be accepted; a rejected statement changes nothing.
TransactionRowAccepted(row) ==
  /\ AmountCheck(row.amount)
  /\ ForeignKeyCheck(row.from_account_id)
  /\ ForeignKeyCheck(row.to_account_id)

\* The error of a rejected statement: the row's CHECK is evaluated when the
\* row is written, the foreign keys when the statement ends.
ConstraintError(row) ==
  IF ~AmountCheck(row.amount) THEN "CHECK constraint failed"
  ELSE "FOREIGN KEY constraint failed"

\* SQL SUM(term) over the rows of a table, term given as a function of the
\* row: NULL over no rows.
RECURSIVE SumOver(_)
SumOver(term) ==
  IF DOMAIN term = {} THEN 0
  ELSE LET r == CHOOSE x \in DOMAIN term : TRUE
       IN term[r] + SumOver([x \in DOMAIN term \ {r} |-> term[x]])

SqlSum(term) ==
  IF DOMAIN term = {} THEN [null |-> TRUE, value |-> 0]
  ELSE [null |-> FALSE, value |-> SumOver(term)]

\* SQL COALESCE(x, d)
Coalesce(x, d) == IF x.null THEN d ELSE x.value

\* queries.ts rowToAccount
RowToAccount(row) ==
  [id |-> row.id, name |-> row.name, type |-> row.type,
   currency |-> row.currency, createdAt |-> row.created_at,
   archived |-> (row.archived = 1)]

\* queries.ts rowToTransaction
RowToTransaction(row) ==
  [id |-> row.id, date |-> row.date, fromAccountId |-> row.from_account_id,
   toAccountId |-> row.to_account_id, amount |-> row.amount,
   tags |-> JSONparse(row.tags), note |-> row.note,
   createdAt |-> row.created_at]

AccountRow(id) == CHOOSE a \in accounts : a.id = id

TransactionRowOf(id) == CHOOSE t \in transactions : t.id = id

\* queries.ts getTransaction: the transaction, or absent
HasTransaction(id) == id \in TransactionIdsStored

GetTransaction(id) == RowToTransaction(TransactionRowOf(id))

\* queries.ts hasTransactions
HasTransactions(accountId) ==
  Cardinality({t \in transactions :
                 t.from_account_id = accountId \/ t.to_account_id = accountId}) > 0

\* A balance query that leaves out the debit term.
GetAccountBalanceCreditOnly(accountId) ==
  Coalesce(SqlSum([t \in transactions |->
                     IF t.to_account_id = accountId THEN t.amount ELSE 0]), 0)

\* queries.ts getAccountBalance
GetAccountBalance(accountId) ==
  LET credit == [t \in transactions |->
                   IF t.to_account_id = accountId THEN t.amount ELSE 0]
      debit == [t \in transactions |->
                  IF t.from_account_id = accountId THEN t.amount ELSE 0]
  IN Coalesce(SqlSum(credit), 0) - Coalesce(SqlSum(debit), 0)

\* queries.ts getNetWorth
GetNetWorth ==
  LET flow(a) ==
        Coalesce(SqlSum([t \in {x \in transactions :
                                  x.from_account_id = a.id \/ x.to_account_id = a.id}
                          |-> IF t.to_account_id = a.id THEN t.amount
                              ELSE 0 - t.amount]), 0)
  IN Coalesce(SqlSum([a \in {x \in accounts : x.archived = 0}
                       |-> IF a.type = "internal" THEN flow(a) ELSE 0]), 0)

----------------------------------------------------------------------------
\* The repository (db/queries.ts). Each call is one step; `last` is the call
\* just made, with its outcome: what it returned ("ok"), that it returned
\* null ("absent"), or that the statement it ran was rejected ("error"), and
\* the number of statements it passed to runAsync.

Supplied(input, f) == f \in DOMAIN input

\* queries.ts createAccount
NewAccountRow(input) ==
  [id |-> GenerateId("account"), name |-> input.name, type |-> input.type,
   currency |-> IF Supplied(input, "currency") THEN input.currency ELSE "USD",
   created_at |-> Now, archived |-> 0]

\* queries.ts createAccount: the account it returns
NewAccountReturned(input) ==
  [id |-> GenerateId("account"), name |-> input.name, type |-> input.type,
   currency |-> IF Supplied(input, "currency") THEN input.currency ELSE "USD",
   createdAt |-> Now, archived |-> FALSE]

\* queries.ts createAccount
CreateAccount(input) ==
  /\ TypeCheck(input.type)
  /\ accounts' = accounts \cup {NewAccountRow(input)}
  /\ nextId' = IdUsed("account")
  /\ last' = [op |-> "createAccount", status |-> "ok", stmts |-> 1,
              ret |-> NewAccountReturned(input)]
  /\ UNCHANGED <<transactions, clock, edit, dbVars, hookVars>>

SetArchived(id, flag) ==
  {IF a.id = id THEN [a EXCEPT !.archived = flag] ELSE a : a \in accounts}

\* queries.ts archiveAccount
ArchiveAccount(id) ==
  /\ accounts' = SetArchived(id, 1)
  /\ last' = [op |-> "archiveAccount", status |-> "ok", stmts |-> 1]
  /\ UNCHANGED <<transactions, nextId, clock, edit, dbVars, hookVars>>

\* queries.ts unarchiveAccount
UnarchiveAccount(id) ==
  /\ accounts' = SetArchived(id, 0)
  /\ last' = [op |-> "unarchiveAccount", status |-> "ok", stmts |-> 1]
  /\ UNCHANGED <<transactions, nextId, clock, edit, dbVars, hookVars>>

\* queries.ts createTransaction: the row its INSERT writes
NewTransactionRow(input) ==
  [id |-> GenerateId("transaction"), date |-> input.date,
   from_account_id |-> input.fromAccountId,
   to_account_id |-> input.toAccountId, amount |-> input.amount,
   tags |-> JSONstringify(IF Supplied(input, "tags") THEN input.tags ELSE <<>>),
   note |-> IF Supplied(input, "note") /\ ~input.note.null THEN input.note ELSE NULL,
   created_at |-> Now]

\* queries.ts createTransaction: the object it returns
NewTransactionReturned(input) ==
  [id |-> GenerateId("transaction"), date |-> input.date,
   fromAccountId |-> input.fromAccountId, toAccountId |-> input.toAccountId,
   amount |-> input.amount,
   tags |-> IF Supplied(input, "tags") THEN input.tags ELSE <<>>,
   note |-> IF Supplied(input, "note") /\ ~input.note.null THEN input.note ELSE NULL,
   createdAt |-> Now]

\* What the store looked like to the derivation reads before a call.
Derived ==
  [balance |-> [a \in AccountIdsStored |-> GetAccountBalance(a)],
   netWorth |-> GetNetWorth]

\* queries.ts createTransaction, made by `call`
InsertTransaction(input, call) ==
  /\ IF TransactionRowAccepted(NewTransactionRow(input))
     THEN /\ transactions' = transactions \cup {NewTransactionRow(input)}
          /\ nextId' = IdUsed("transaction")
          /\ last' = call @@ [status |-> "ok", stmts |-> 1,
                              ret |-> NewTransactionReturned(input),
                              before |-> Derived]
     ELSE /\ UNCHANGED <<transactions, nextId>>
          /\ last' = call @@ [status |-> "error", stmts |-> 1,
                              error |-> ConstraintError(NewTransactionRow(input))]

\* queries.ts createTransaction
CreateTransaction(input) ==
  /\ InsertTransaction(input, [op |-> "createTransaction"])
  /\ UNCHANGED <<accounts, clock, edit, dbVars, hookVars>>

\* A reversal note chosen with || in place of ??: the empty text counts as
\* no note.
ReversalNoteOr(transactionId, note) ==
  IF note.null \/ note.text = ""
  THEN [null |-> FALSE, text |-> "Reversal of transaction ", ref |-> transactionId]
  ELSE note

\* queries.ts reverseTransaction: the note of the reversal
ReversalNote(transactionId, note) ==
  IF note.null
  THEN [null |-> FALSE, text |-> "Reversal of transaction ", ref |-> transactionId]
  ELSE note

\* queries.ts reverseTransaction: the input it passes to createTransaction
ReversalInput(original, transactionId, note) ==
  [date |-> Now, fromAccountId |-> original.toAccountId,
   toAccountId |-> original.fromAccountId, amount |-> original.amount,
   tags |-> original.tags, note |-> ReversalNote(transactionId, note)]

\* A reversal that swaps the ends of the stored row instead of adding one.
ReverseTransactionInPlace(transactionId, note) ==
  /\ HasTransaction(transactionId)
  /\ LET row == TransactionRowOf(transactionId)
         new == [row EXCEPT !.from_account_id = row.to_account_id,
                            !.to_account_id = row.from_account_id]
     IN /\ transactions' = (transactions \ {row}) \cup {new}
        /\ last' = [op |-> "reverseTransaction", of |-> transactionId,
                    status |-> "ok", stmts |-> 1, ret |-> RowToTransaction(new)]
  /\ UNCHANGED <<accounts, nextId, clock, edit, dbVars, hookVars>>

\* A reversal that returns null for a transaction that is not stored.
ReverseTransactionOrNull(transactionId, note) ==
  /\ IF ~HasTransaction(transactionId)
     THEN /\ last' = [op |-> "reverseTransaction", status |-> "absent", stmts |-> 0,
                      of |-> transactionId]
          /\ UNCHANGED <<transactions, nextId>>
     ELSE InsertTransaction(
            ReversalInput(GetTransaction(transactionId), transactionId, note),
            [op |-> "reverseTransaction", of |-> transactionId])
  /\ UNCHANGED <<accounts, clock, edit, dbVars, hookVars>>

\* queries.ts reverseTransaction
ReverseTransaction(transactionId, note) ==
  /\ IF ~HasTransaction(transactionId)
     THEN /\ last' = [op |-> "reverseTransaction", status |-> "error", stmts |-> 0,
                      error |-> "Transaction not found", of |-> transactionId]
          /\ UNCHANGED <<transactions, nextId>>
     ELSE InsertTransaction(
            ReversalInput(GetTransaction(transactionId), transactionId, note),
            [op |-> "reverseTransaction", of |-> transactionId])
  /\ UNCHANGED <<accounts, clock, edit, dbVars, hookVars>>

\* An UPDATE that writes the default tags when none are supplied.
UpdatedTransactionRowDefaultTags(row, input) ==
  [id |-> row.id,
   date |-> IF Supplied(input, "date") THEN input.date ELSE row.date,
   from_account_id |-> IF Supplied(input, "fromAccountId")
                       THEN input.fromAccountId ELSE row.from_account_id,
   to_account_id |-> IF Supplied(input, "toAccountId")
                     THEN input.toAccountId ELSE row.to_account_id,
   amount |-> IF Supplied(input, "amount") THEN input.amount ELSE row.amount,
   tags |-> IF Supplied(input, "tags") THEN JSONstringify(input.tags)
            ELSE JSONstringify(<<>>),
   note |-> IF Supplied(input, "note")
            THEN (IF input.note.null THEN Str("") ELSE input.note)
            ELSE row.note,
   created_at |-> row.created_at]

\* queries.ts updateTransaction: the row its UPDATE leaves
UpdatedTransactionRow(row, input) ==
  [id |-> row.id,
   date |-> IF Supplied(input, "date") THEN input.date ELSE row.date,
   from_account_id |-> IF Supplied(input, "fromAccountId")
                       THEN input.fromAccountId ELSE row.from_account_id,
   to_account_id |-> IF Supplied(input, "toAccountId")
                     THEN input.toAccountId ELSE row.to_account_id,
   amount |-> IF Supplied(input, "amount") THEN input.amount ELSE row.amount,
   tags |-> IF Supplied(input, "tags") THEN JSONstringify(input.tags) ELSE row.tags,
   note |-> IF Supplied(input, "note")
            THEN (IF input.note.null THEN Str("") ELSE input.note)
            ELSE row.note,
   created_at |-> row.created_at]

\* queries.ts updateTransaction: what it does to the store and returns
UpdateTransactionStore(id, input) ==
     LET call == [op |-> "updateTransaction"]
         stmts == IF DOMAIN input = {} THEN 0 ELSE 1
         row == TransactionRowOf(id)
         new == UpdatedTransactionRow(row, input)
     IN IF ~HasTransaction(id)
        THEN /\ last' = call @@ [status |-> "absent", stmts |-> stmts]
             /\ UNCHANGED transactions
        ELSE IF DOMAIN input = {}
        THEN /\ last' = call @@ [status |-> "ok", stmts |-> 0,
                                 ret |-> GetTransaction(id)]
             /\ UNCHANGED transactions
        ELSE IF TransactionRowAccepted(new)
        THEN /\ transactions' = (transactions \ {row}) \cup {new}
             /\ last' = call @@ [status |-> "ok", stmts |-> 1,
                                 ret |-> RowToTransaction(new)]
        ELSE /\ last' = call @@ [status |-> "error", stmts |-> 1,
                                 error |-> ConstraintError(new)]
             /\ UNCHANGED transactions

\* queries.ts updateTransaction
UpdateTransaction(id, input) ==
  /\ UpdateTransactionStore(id, input)
  /\ UNCHANGED <<accounts, nextId, clock, edit, dbVars, hookVars>>

\* A delete that reports success whether or not a row was removed.
DeleteTransactionAlwaysTrue(id) ==
  /\ transactions' = {t \in transactions : t.id # id}
  /\ last' = [op |-> "deleteTransaction", status |-> "ok", stmts |-> 1,
              ret |-> TRUE]
  /\ UNCHANGED <<accounts, nextId, clock, edit, dbVars, hookVars>>

\* queries.ts deleteTransaction
DeleteTransaction(id) ==
  /\ transactions' = {t \in transactions : t.id # id}
  /\ last' = [op |-> "deleteTransaction", status |-> "ok", stmts |-> 1,
              ret |-> HasTransaction(id)]
  /\ UNCHANGED <<accounts, nextId, clock, edit, dbVars, hookVars>>

\* A filter whose end date is exclusive.
FilterMatchesBeforeEnd(t, filter) ==
  /\ Supplied(filter, "accountId") =>
       (t.from_account_id = filter.accountId \/ t.to_account_id = filter.accountId)
  /\ Supplied(filter, "startDate") => t.date >= filter.startDate
  /\ Supplied(filter, "endDate") => t.date < filter.endDate

\* queries.ts getTransactions: the WHERE conditions of a filter on a row. An
\* accountId is a condition when it is truthy, which every identifier is.
FilterMatches(t, filter) ==
  /\ Supplied(filter, "accountId") =>
       (t.from_account_id = filter.accountId \/ t.to_account_id = filter.accountId)
  /\ Supplied(filter, "startDate") => t.date >= filter.startDate
  /\ Supplied(filter, "endDate") => t.date <= filter.endDate

\* ORDER BY date DESC, created_at DESC: row a may come before row b
OrderedBefore(a, b) ==
  \/ a.date > b.date
  \/ a.date = b.date /\ a.created_at >= b.created_at

\* The orders in which the store may return the rows: every arrangement of
\* them that ORDER BY allows (rows equal in date and created_at come in an
\* order the store chooses).
OrderedLists(rows) ==
  {list \in [1..Cardinality(rows) -> rows] :
     /\ \A i, j \in 1..Cardinality(rows) : i # j => list[i] # list[j]
     /\ \A i, j \in 1..Cardinality(rows) : i < j => OrderedBefore(list[i], list[j])}

\* A page that takes the offset as a page number.
LimitOffsetAsPage(list, filter) ==
  LET offset == IF Supplied(filter, "offset") /\ Supplied(filter, "limit")
                THEN filter.offset * filter.limit ELSE 0
      upto == IF Supplied(filter, "limit") /\ offset + filter.limit < Len(list)
              THEN offset + filter.limit ELSE Len(list)
  IN SubSeq(list, offset + 1, upto)

\* LIMIT ? OFFSET ? on an ordered list: a negative limit is no limit, a
\* negative offset is 0; without a LIMIT clause every row is returned.
LimitOffset(list, filter) ==
  LET offset == IF Supplied(filter, "offset") /\ filter.offset > 0
                THEN filter.offset ELSE 0
      upto == IF Supplied(filter, "limit") /\ filter.limit >= 0
                 /\ offset + filter.limit < Len(list)
              THEN offset + filter.limit ELSE Len(list)
  IN SubSeq(list, offset + 1, upto)

\* queries.ts getTransactions: the statement it builds has an OFFSET clause
\* and no LIMIT clause, which the store does not parse
OffsetWithoutLimit(filter) ==
  Supplied(filter, "offset") /\ ~Supplied(filter, "limit")

\* queries.ts getTransactions: the lists it may return
GetTransactionsLists(filter) ==
  {LET page == LimitOffset(list, filter)
   IN [i \in 1..Len(page) |-> RowToTransaction(page[i])] :
     list \in OrderedLists({t \in transactions : FilterMatches(t, filter)})}

\* queries.ts getTransactions
GetTransactions(filter) ==
  /\ LET call == [op |-> "getTransactions", stmts |-> 1, filter |-> filter]
     IN IF OffsetWithoutLimit(filter)
        THEN last' = call @@ [status |-> "error", error |-> "syntax error"]
        ELSE \E list \in GetTransactionsLists(filter) :
               last' = call @@ [status |-> "ok", ret |-> list]
  /\ UNCHANGED <<accounts, transactions, nextId, clock, edit, dbVars, hookVars>>

\* The pages of size L of a filter, read one call of getTransactions after
\* the other, {limit: L, offset: k * L} for k = 0, 1, ..., while the store
\* stays as it is: as many calls as it takes to pass the matching rows. Each
\* call is a query of its own, and returns its rows in an order of its own
\* among those ORDER BY allows.
GetTransactionsPages(filter, L) ==
  /\ LET n == Cardinality({t \in transactions : FilterMatches(t, filter)})
         K == (n + L - 1) \div L
         queries == [k \in 1..K |->
                     GetTransactionsLists(filter @@ [limit |-> L,
                                                     offset |-> (k - 1) * L])]
     IN \E pages \in [1..K -> UNION {queries[k] : k \in 1..K}] :
          /\ \A k \in 1..K : pages[k] \in queries[k]
          /\ last' = [op |-> "getTransactionsPages", status |-> "ok", stmts |-> K,
                      filter |-> filter, limit |-> L, pages |-> pages]
  /\ UNCHANGED <<accounts, transactions, nextId, clock, edit, dbVars, hookVars>>

\* Time passes.
Tick ==
  /\ clock < MaxClock
  /\ clock' = clock + 1
  /\ last' = [op |-> "tick", status |-> "ok", stmts |-> 0]
  /\ UNCHANGED <<accounts, transactions, nextId, edit, dbVars, hookVars>>

----------------------------------------------------------------------------
\* The new-transaction screen and the useTransactions hook.

\* useTransactions add: createTransaction, a rejection caught and turned into
\* a null result
Add(input, call) == InsertTransaction(input, call)

\* NewTransactionScreen handleSubmit, on a form holding from, to, amount,
\* tags and note
NewTransactionHandleSubmit(form) ==
  /\ LET call == [op |-> "NewTransactionScreen.handleSubmit"]
         alert == [status |-> "alert", stmts |-> 0]
         input == [date |-> Now, fromAccountId |-> form.fromAccountId,
                   toAccountId |-> form.toAccountId, amount |-> form.amount]
                  @@ (IF Len(form.tags) > 0 THEN [tags |-> form.tags] ELSE <<>>)
                  @@ (IF form.note.text # "" THEN [note |-> form.note] ELSE <<>>)
     IN IF \/ form.fromAccountId = NoId
           \/ form.toAccountId = NoId
           \/ form.fromAccountId = form.toAccountId
           \/ form.amount <= 0
        THEN /\ last' = call @@ alert
             /\ UNCHANGED <<transactions, nextId>>
        ELSE Add(input, call)
  /\ UNCHANGED <<accounts, clock, edit, dbVars, hookVars>>

----------------------------------------------------------------------------
\* Accounts: updateAccount, the useAccounts hook and the edit-account screen.

\* An UPDATE that writes the default currency when none is supplied.
UpdatedAccountRowDefaultCurrency(row, input) ==
  [id |-> row.id,
   name |-> IF Supplied(input, "name") THEN input.name ELSE row.name,
   type |-> IF Supplied(input, "type") THEN input.type ELSE row.type,
   currency |-> IF Supplied(input, "currency") THEN input.currency ELSE "USD",
   created_at |-> row.created_at, archived |-> row.archived]

\* queries.ts updateAccount: the row its UPDATE leaves
UpdatedAccountRow(row, input) ==
  [id |-> row.id,
   name |-> IF Supplied(input, "name") THEN input.name ELSE row.name,
   type |-> IF Supplied(input, "type") THEN input.type ELSE row.type,
   currency |-> IF Supplied(input, "currency") THEN input.currency
                ELSE row.currency,
   created_at |-> row.created_at, archived |-> row.archived]

\* queries.ts updateAccount: the accounts table after it
UpdatedAccounts(id, input) ==
  {IF a.id = id THEN UpdatedAccountRow(a, input) ELSE a : a \in accounts}

\* queries.ts updateAccount
UpdateAccount(id, input) ==
  /\ accounts' = UpdatedAccounts(id, input)
  /\ last' = [op |-> "updateAccount",
              status |-> IF id \in AccountIdsStored THEN "ok" ELSE "absent",
              stmts |-> IF DOMAIN input = {} THEN 0 ELSE 1]
             @@ (IF id \in AccountIdsStored
                 THEN [ret |-> RowToAccount(UpdatedAccountRow(AccountRow(id), input))]
                 ELSE <<>>)
  /\ UNCHANGED <<transactions, nextId, clock, edit, dbVars, hookVars>>

\* String.prototype.trim on the texts the forms hold
Trim(text) ==
  CASE text = " " -> ""
    [] text = " EUR" -> "EUR"
    [] OTHER -> text

\* EditAccountScreen: its state before loadAccount has run (the useState
\* defaults), pc telling how far loadAccount is
EditClosed ==
  [pc |-> "closed", id |-> NoId, name |-> "", type |-> "internal",
   currency |-> "USD", accountHasTransactions |-> FALSE]

\* EditAccountScreen loadAccount, up to its await of hasTransactions
EditLoadAccount(id) ==
  /\ edit.pc = "closed"
  /\ IF id \in AccountIdsStored
     THEN edit' = [pc |-> "checking", id |-> id, name |-> AccountRow(id).name,
                   type |-> AccountRow(id).type,
                   currency |-> AccountRow(id).currency,
                   accountHasTransactions |-> FALSE]
     ELSE edit' = [EditClosed EXCEPT !.pc = "notFound", !.id = id]
  /\ last' = [op |-> "EditAccountScreen.loadAccount", status |-> "ok", stmts |-> 0]
  /\ UNCHANGED <<accounts, transactions, nextId, clock, dbVars, hookVars>>

\* EditAccountScreen loadAccount, from hasTransactions on
EditCheckTransactions ==
  /\ edit.pc = "checking"
  /\ edit' = [edit EXCEPT !.pc = "ready",
                          !.accountHasTransactions = HasTransactions(edit.id)]
  /\ last' = [op |-> "EditAccountScreen.hasTransactions", status |-> "ok",
              stmts |-> 0]
  /\ UNCHANGED <<accounts, transactions, nextId, clock, dbVars, hookVars>>

\* EditAccountScreen: the name field is typed into
EditSetName(name) ==
  /\ edit.pc = "ready"
  /\ edit' = [edit EXCEPT !.name = name]
  /\ last' = [op |-> "EditAccountScreen.setName", status |-> "ok", stmts |-> 0]
  /\ UNCHANGED <<accounts, transactions, nextId, clock, dbVars, hookVars>>

\* EditAccountScreen: a type button is pressed (disabled once the account
\* was found to have transactions)
EditSetType(type) ==
  /\ edit.pc = "ready"
  /\ ~edit.accountHasTransactions
  /\ edit' = [edit EXCEPT !.type = type]
  /\ last' = [op |-> "EditAccountScreen.setType", status |-> "ok", stmts |-> 0]
  /\ UNCHANGED <<accounts, transactions, nextId, clock, dbVars, hookVars>>

\* EditAccountScreen: the currency field is typed into (not editable once the
\* account was found to have transactions)
EditSetCurrency(currency) ==
  /\ edit.pc = "ready"
  /\ ~edit.accountHasTransactions
  /\ edit' = [edit EXCEPT !.currency = currency]
  /\ last' = [op |-> "EditAccountScreen.setCurrency", status |-> "ok", stmts |-> 0]
  /\ UNCHANGED <<accounts, transactions, nextId, clock, dbVars, hookVars>>

\* EditAccountScreen handleSubmit: the input it passes to update
EditUpdateInput ==
  IF edit.accountHasTransactions
  THEN [name |-> Trim(edit.name)]
  ELSE [name |-> Trim(edit.name), type |-> edit.type,
        currency |-> IF Trim(edit.currency) = "" THEN "USD"
                     ELSE Trim(edit.currency)]

\* EditAccountScreen handleSubmit, with useAccounts update
EditHandleSubmit ==
  /\ edit.pc = "ready"
  /\ LET call == [op |-> "EditAccountScreen.handleSubmit"]
     IN IF Trim(edit.name) = ""
        THEN /\ last' = call @@ [status |-> "alert", stmts |-> 0]
             /\ UNCHANGED <<accounts, edit>>
        ELSE /\ accounts' = UpdatedAccounts(edit.id, EditUpdateInput)
             /\ last' = call @@ [status |-> "ok", stmts |-> 1]
             /\ edit' = EditClosed
  /\ UNCHANGED <<transactions, nextId, clock, dbVars, hookVars>>

\* EditAccountScreen is dismissed
EditClose ==
  /\ edit.pc \in {"ready", "notFound"}
  /\ edit' = EditClosed
  /\ last' = [op |-> "EditAccountScreen.close", status |-> "ok", stmts |-> 0]
  /\ UNCHANGED <<accounts, transactions, nextId, clock, dbVars, hookVars>>

----------------------------------------------------------------------------
\* The database module (getDatabase, closeDatabase) and the migrations. Every
\* await of a call is a step of its own; other calls run between the steps.

\* db = null
NoHandle == 0

\* schema SCHEMA_VERSION
SCHEMA_VERSION == 1

\* The callers of getDatabase: RootLayout's initDatabase, useDatabase's init.
Callers == {"RootLayout", "useDatabase"}

\* The statements of migrateToV1, by the position of the call that runs them,
\* with the object each creates (IF NOT EXISTS) and the position after it.
MigrateToV1Steps ==
  [createAccounts |-> [object |-> "accounts", next |-> "createTransactions"],
   createTransactions |-> [object |-> "transactions", next |-> "createDateIndex"],
   createDateIndex |-> [object |-> "idx_transactions_date", next |-> "createFromIndex"],
   createFromIndex |-> [object |-> "idx_transactions_from", next |-> "createToIndex"],
   createToIndex |-> [object |-> "idx_transactions_to", next |-> "deleteVersion"]]

SchemaObjects ==
  {"schema_version"} \cup {MigrateToV1Steps[p].object : p \in DOMAIN MigrateToV1Steps}

\* A store nothing was ever run on.
EmptySchema == [objects |-> {}, version |-> {}, completed |-> FALSE]

\* A process that has not opened the database.
NoConnections ==
  [next |-> 1, open |-> {}, foreignKeys |-> {}, migrated |-> {},
   closing |-> NoHandle, opens |-> 0, runs |-> 0]

\* A caller with no getDatabase call made. handle is the connection its
\* openDatabaseAsync gave, target the one it passed to runMigrations,
\* currentVersion and start what that run read when it began, ret the handle
\* the call resolved to.
IdleCall ==
  [pc |-> "idle", handle |-> NoHandle, target |-> NoHandle,
   currentVersion |-> 0, start |-> EmptySchema, ret |-> NoHandle]

\* A statement can run on a connection that is open.
Usable(handle) == handle \in conn.open

Rejected(c) == calls' = [calls EXCEPT ![c].pc = "rejected"]

\* getDatabase, up to its first await
GetDatabase(c) ==
  /\ calls[c].pc \in {"idle", "resolved", "rejected"}
  /\ IF db # NoHandle
     THEN calls' = [calls EXCEPT ![c] = [IdleCall EXCEPT !.pc = "resolved", !.ret = db]]
     ELSE calls' = [calls EXCEPT ![c] = [IdleCall EXCEPT !.pc = "open"]]
  /\ UNCHANGED <<accounts, transactions, nextId, clock, last, edit, hookVars, db, conn, schema>>

\* getDatabase: openDatabaseAsync resolves and db is assigned
OpenDatabaseAsync(c) ==
  /\ calls[c].pc = "open"
  /\ db' = conn.next
  /\ conn' = [conn EXCEPT !.next = @ + 1, !.open = @ \cup {conn.next},
                          !.opens = @ + 1]
  /\ calls' = [calls EXCEPT ![c].pc = "pragma", ![c].handle = conn.next]
  /\ UNCHANGED <<accounts, transactions, nextId, clock, last, edit, hookVars, schema>>

\* getDatabase: PRAGMA foreign_keys = ON ran on the connection that was
\* assigned; runMigrations(db) is called with what db is by now
PragmaForeignKeys(c) ==
  /\ calls[c].pc = "pragma"
  /\ conn' = [conn EXCEPT
                !.foreignKeys = IF Usable(calls[c].handle)
                                THEN @ \cup {calls[c].handle} ELSE @,
                !.runs = IF Usable(calls[c].handle) THEN @ + 1 ELSE @]
  /\ IF Usable(calls[c].handle)
     THEN calls' = [calls EXCEPT ![c].pc = "createVersionTable",
                                 ![c].target = db,
                                 ![c].start = schema]
     ELSE Rejected(c)
  /\ UNCHANGED <<accounts, transactions, nextId, clock, last, edit, hookVars, db, schema>>

\* migrations.ts getSchemaVersion: CREATE TABLE IF NOT EXISTS schema_version;
\* an error is caught and the version taken to be 0
CreateSchemaVersionTable(c) ==
  /\ calls[c].pc = "createVersionTable"
  /\ IF Usable(calls[c].target)
     THEN /\ schema' = [schema EXCEPT !.objects = @ \cup {"schema_version"}]
          /\ calls' = [calls EXCEPT ![c].pc = "selectVersion"]
     ELSE /\ calls' = [calls EXCEPT ![c].pc = "createAccounts",
                                    ![c].currentVersion = 0]
          /\ UNCHANGED schema
  /\ UNCHANGED <<accounts, transactions, nextId, clock, last, edit, hookVars, db, conn>>

\* migrations.ts getSchemaVersion: SELECT version FROM schema_version LIMIT 1,
\* then runMigrations' comparison of the version with 1
SelectSchemaVersion(c) ==
  /\ calls[c].pc = "selectVersion"
  /\ LET version == IF /\ Usable(calls[c].target)
                       /\ "schema_version" \in schema.objects
                       /\ schema.version # {}
                    THEN CHOOSE v \in schema.version : TRUE
                    ELSE 0
     IN calls' = [calls EXCEPT
                    ![c].currentVersion = version,
                    ![c].pc = IF version < 1 THEN "createAccounts"
                              ELSE "deleteVersion"]
  /\ UNCHANGED <<accounts, transactions, nextId, clock, last, edit, hookVars, db, conn, schema>>

\* migrations.ts migrateToV1: one of its CREATE ... IF NOT EXISTS statements
MigrateToV1(c) ==
  /\ calls[c].pc \in DOMAIN MigrateToV1Steps
  /\ IF Usable(calls[c].target)
     THEN /\ schema' = [schema EXCEPT
                          !.objects = @ \cup {MigrateToV1Steps[calls[c].pc].object}]
          /\ calls' = [calls EXCEPT ![c].pc = MigrateToV1Steps[calls[c].pc].next]
     ELSE /\ Rejected(c)
          /\ UNCHANGED schema
  /\ UNCHANGED <<accounts, transactions, nextId, clock, last, edit, hookVars, db, conn>>

\* A setSchemaVersion that empties the transactions table as well.
DeleteSchemaVersionAndRows(c) ==
  /\ calls[c].pc = "deleteVersion"
  /\ schema' = [schema EXCEPT !.version = {}]
  /\ transactions' = {}
  /\ calls' = [calls EXCEPT ![c].pc = "insertVersion"]
  /\ UNCHANGED <<accounts, nextId, clock, last, edit, hookVars, db, conn>>

\* migrations.ts setSchemaVersion: DELETE FROM schema_version
DeleteSchemaVersion(c) ==
  /\ calls[c].pc = "deleteVersion"
  /\ IF Usable(calls[c].target) /\ "schema_version" \in schema.objects
     THEN /\ schema' = [schema EXCEPT !.version = {}]
          /\ calls' = [calls EXCEPT ![c].pc = "insertVersion"]
     ELSE /\ Rejected(c)
          /\ UNCHANGED schema
  /\ UNCHANGED <<accounts, transactions, nextId, clock, last, edit, hookVars, db, conn>>

\* migrations.ts setSchemaVersion: INSERT INTO schema_version, rejected by the
\* PRIMARY KEY when the version is already there; with it runMigrations is
\* complete and getDatabase returns what db is by now
InsertSchemaVersion(c) ==
  /\ calls[c].pc = "insertVersion"
  /\ IF /\ Usable(calls[c].target)
        /\ "schema_version" \in schema.objects
        /\ SCHEMA_VERSION \notin schema.version
     THEN /\ schema' = [schema EXCEPT !.version = @ \cup {SCHEMA_VERSION},
                                      !.completed = TRUE]
          /\ conn' = [conn EXCEPT !.migrated = @ \cup {calls[c].target}]
          /\ calls' = [calls EXCEPT ![c].pc = "resolved", ![c].ret = db]
     ELSE /\ Rejected(c)
          /\ UNCHANGED <<schema, conn>>
  /\ UNCHANGED <<accounts, transactions, nextId, clock, last, edit, hookVars, db>>

\* A statement of migrateToV1 or setSchemaVersion fails in the store (the
\* disk is full, the file is locked): runMigrations and getDatabase reject
ExecFails(c) ==
  /\ calls[c].pc \in DOMAIN MigrateToV1Steps \cup {"deleteVersion", "insertVersion"}
  /\ Rejected(c)
  /\ UNCHANGED <<accounts, transactions, nextId, clock, last, edit, hookVars, db, conn, schema>>

\* closeDatabase, up to its await: closeAsync on the connection db names.
\* Calls that had settled belong to the time before it.
CloseDatabase ==
  /\ db # NoHandle
  /\ conn.closing = NoHandle
  /\ conn' = [conn EXCEPT !.open = @ \ {db}, !.closing = db,
                          !.opens = 0, !.runs = 0]
  /\ calls' = [c \in Callers |->
                 IF calls[c].pc \in {"resolved", "rejected"} THEN IdleCall
                 ELSE calls[c]]
  /\ UNCHANGED <<accounts, transactions, nextId, clock, last, edit, hookVars, db, schema>>

\* closeDatabase, after its await: db = null
CloseDatabaseDone ==
  /\ conn.closing # NoHandle
  /\ db' = NoHandle
  /\ conn' = [conn EXCEPT !.closing = NoHandle]
  /\ UNCHANGED <<accounts, transactions, nextId, clock, last, edit, hookVars, schema, calls>>

\* Execution stops (the app is killed) and starts again: the module's state
\* is gone, the store is as the last statement left it.
Restart ==
  /\ \E c \in Callers : calls[c].pc # "idle"
  /\ db' = NoHandle
  /\ conn' = NoConnections
  /\ calls' = [c \in Callers |-> IdleCall]
  /\ UNCHANGED <<accounts, transactions, nextId, clock, last, edit, hookVars, schema>>

----------------------------------------------------------------------------
\* Income and expense (utils/transaction.ts and the dashboard screen).

\* transaction.ts categorizeTransaction
CategorizeTransaction(fromAccountType, toAccountType) ==
  IF fromAccountType = "external" /\ toAccountType = "internal" THEN "income"
  ELSE IF fromAccountType = "internal" /\ toAccountType = "external" THEN "expense"
  ELSE "transfer"

\* The transactions of a list that calculateIncomeAndExpenses gives the
\* category: both accounts resolve and their types categorise so. The resolver
\* is a function from account ids to accounts; an id outside its domain
\* resolves to undefined.
CalculateCounted(rows, accountResolver, category) ==
  {t \in rows :
     /\ t.from_account_id \in DOMAIN accountResolver
     /\ t.to_account_id \in DOMAIN accountResolver
     /\ CategorizeTransaction(accountResolver[t.from_account_id].type,
                              accountResolver[t.to_account_id].type) = category}

\* transaction.ts calculateIncomeAndExpenses
CalculateIncomeAndExpenses(rows, accountResolver) ==
  [income |-> SumOver([t \in CalculateCounted(rows, accountResolver, "income")
                         |-> t.amount]),
   expenses |-> SumOver([t \in CalculateCounted(rows, accountResolver, "expense")
                           |-> t.amount])]

\* A perspective that, for an external viewer too, goes by the side the viewer
\* is on.
PerspectiveBySide(currentAccountId, currentAccountType, fromAccountId, fromAccountType, toAccountType) ==
  IF fromAccountId = currentAccountId THEN "from" ELSE "to"

\* transaction.ts getTransactionPerspective
PerspectiveOf(currentAccountId, currentAccountType, fromAccountId, fromAccountType, toAccountType) ==
  IF currentAccountType = "internal"
  THEN IF toAccountType = "internal" /\ fromAccountId # currentAccountId THEN "to"
       ELSE IF fromAccountId = currentAccountId THEN "from"
       ELSE "to"
  ELSE LET category == CategorizeTransaction(fromAccountType, toAccountType)
       IN IF category = "income" THEN "to"
          ELSE IF category = "expense" THEN "from"
          ELSE "neutral"

\* A call of getTransactionPerspective
GetTransactionPerspective(args) ==
  /\ last' = [op |-> "getTransactionPerspective", status |-> "ok", stmts |-> 0,
              args |-> args,
              ret |-> PerspectiveOf(args.currentAccountId, args.currentAccountType,
                                    args.fromAccountId, args.fromAccountType,
                                    args.toAccountType)]
  /\ UNCHANGED <<accounts, transactions, nextId, clock, edit, dbVars, hookVars>>

\* queries.ts getAllAccounts, as a map by id (the dashboard's accountMap is
\* built from getAccountsWithBalances(false): the accounts not archived)
GetAllAccounts(includeArchived) ==
  LET rows == {a \in accounts : includeArchived \/ a.archived = 0}
  IN [id \in {a.id : a \in rows} |-> RowToAccount(AccountRow(id))]

\* DashboardScreen totalIncome: the transactions its reduce adds up, out of
\* the recent transactions (all of them, up to ten) and the loaded accounts
DashboardIncomeRows ==
  LET accountMap == GetAllAccounts(FALSE)
  IN {t \in transactions :
        /\ t.to_account_id \in DOMAIN accountMap
        /\ accountMap[t.to_account_id].type = "internal"}

\* DashboardScreen totalExpenses: the transactions its reduce adds up
DashboardExpenseRows ==
  LET accountMap == GetAllAccounts(FALSE)
  IN {t \in transactions :
        /\ t.from_account_id \in DOMAIN accountMap
        /\ accountMap[t.from_account_id].type = "internal"}

DashboardTotalIncome == SumOver([t \in DashboardIncomeRows |-> t.amount])

DashboardTotalExpenses == SumOver([t \in DashboardExpenseRows |-> t.amount])

----------------------------------------------------------------------------
\* The useAccounts hook (hooks/useAccounts.ts). `hook` is the state of one
\* instance: its options, the db and isReady it has from useDatabase, and its
\* accounts, loading and error. `hookCalls` holds the calls of its functions
\* in progress, each at the await it is suspended at:
\*   "statement"  the repository call's statement has not run yet
\*   "select"     updateAccount's UPDATE has run, its getAccount has not
\*   "resolved"   the repository call has resolved, add/update/archive/
\*                unarchive has not resumed
\*   "rejected"   the repository call has rejected, the catch has not run
\*   "query"      refresh has set loading, its query has not run
\*   "data"       the query has run, refresh has not resumed
\*   "settled"    the call has returned
\* The completions of different calls arrive in any order.

HookSlots == 1..MaxHookCalls

NoError == "null"

\* The names in use, in the order SQLite's ORDER BY name gives them.
NameOrder == <<"Checking", "Savings">>

NameRank(name) == CHOOSE i \in 1..Len(NameOrder) : NameOrder[i] = name

\* queries.ts getAllAccounts / getAccountsByType, as useAccounts.refresh calls
\* them with its options: the lists the query can return (rows of one name in
\* any order)
GetAccountsLists(options) ==
  LET rows == {a \in accounts :
                 /\ Supplied(options, "type") => a.type = options.type
                 /\ \/ Supplied(options, "includeArchived") /\ options.includeArchived
                    \/ a.archived = 0}
      n == Cardinality(rows)
      orders == {o \in [1..n -> rows] :
                   /\ \A i, j \in 1..n : i # j => o[i] # o[j]
                   /\ \A i, j \in 1..n :
                        i < j => NameRank(o[i].name) <= NameRank(o[j].name)}
  IN {[i \in 1..n |-> RowToAccount(o[i])] : o \in orders}

IdleHookCall ==
  [op |-> "none", pc |-> "idle", id |-> NoId, input |-> <<>>, result |-> NULL,
   data |-> <<>>, ret |-> NULL, reads |-> 0, failed |-> FALSE]

\* A call that has returned: what it returned, how many times it read the
\* list, and whether it ended in its catch.
SettledHookCall(op, ret, reads, failed) ==
  [IdleHookCall EXCEPT !.op = op, !.pc = "settled", !.ret = ret,
                       !.reads = reads, !.failed = failed]

HookFree(c) == hookCalls[c].pc \in {"idle", "settled"}

\* useAccounts: its state at the first render
HookMounted(options) ==
  [options |-> options, isReady |-> FALSE, accounts |-> <<>>,
   loading |-> TRUE, error |-> NoError]

\* useAccounts refresh, up to its await: setLoading(true) and the query is
\* issued
RefreshBegin(c, op) ==
  /\ hook' = [hook EXCEPT !.loading = TRUE]
  /\ hookCalls' = [hookCalls EXCEPT ![c] = [@ EXCEPT !.op = op, !.pc = "query"]]

\* useDatabase init resolves: db and isReady are set, and the effect of
\* useAccounts calls refresh
UseDatabaseInit(c) ==
  /\ ~hook.isReady
  /\ HookFree(c)
  /\ hook' = [hook EXCEPT !.isReady = TRUE, !.loading = TRUE]
  /\ hookCalls' = [hookCalls EXCEPT ![c] = [IdleHookCall EXCEPT !.op = "refresh",
                                                                !.pc = "query"]]
  /\ UNCHANGED <<accounts, transactions, nextId, clock, last, edit, dbVars, editTx, reversing>>

\* useAccounts refresh / add / update / archive / unarchive: the call, up to
\* its first await
HookStart(c, op, id, input) ==
  /\ HookFree(c)
  /\ IF ~hook.isReady
     THEN /\ hook' = IF op \in {"add", "update"}
                     THEN [hook EXCEPT !.error = "Database not ready"]
                     ELSE hook
          /\ hookCalls' = [hookCalls EXCEPT ![c] = SettledHookCall(op, NULL, 0, FALSE)]
     ELSE IF op = "refresh"
     THEN /\ hook' = [hook EXCEPT !.loading = TRUE]
          /\ hookCalls' = [hookCalls EXCEPT ![c] = [IdleHookCall EXCEPT !.op = op,
                                                                        !.pc = "query"]]
     ELSE /\ hookCalls' = [hookCalls EXCEPT ![c] =
                             [IdleHookCall EXCEPT
                                !.op = op, !.id = id, !.input = input,
                                !.pc = IF op = "update" /\ DOMAIN input = {}
                                       THEN "select" ELSE "statement"]]
          /\ UNCHANGED hook
  /\ UNCHANGED <<accounts, transactions, nextId, clock, last, edit, dbVars, editTx, reversing>>

\* The statement of createAccount, archiveAccount, unarchiveAccount or
\* updateAccount runs: the store changes and the call resolves, or the CHECK
\* on type rejects the row and the call rejects.
HookStatement(c) ==
  LET call == hookCalls[c]
  IN /\ call.pc = "statement"
     /\ CASE call.op = "add" ->
               IF TypeCheck(call.input.type)
               THEN /\ accounts' = accounts \cup {NewAccountRow(call.input)}
                    /\ nextId' = IdUsed("account")
                    /\ hookCalls' = [hookCalls EXCEPT ![c] =
                                       [call EXCEPT !.pc = "resolved",
                                                    !.result = NewAccountReturned(call.input)]]
               ELSE /\ hookCalls' = [hookCalls EXCEPT ![c] = [call EXCEPT !.pc = "rejected"]]
                    /\ UNCHANGED <<accounts, nextId>>
          [] call.op = "update" ->
               IF /\ call.id \in AccountIdsStored
                  /\ Supplied(call.input, "type")
                  /\ ~TypeCheck(call.input.type)
               THEN /\ hookCalls' = [hookCalls EXCEPT ![c] = [call EXCEPT !.pc = "rejected"]]
                    /\ UNCHANGED <<accounts, nextId>>
               ELSE /\ accounts' = UpdatedAccounts(call.id, call.input)
                    /\ hookCalls' = [hookCalls EXCEPT ![c] = [call EXCEPT !.pc = "select"]]
                    /\ UNCHANGED nextId
          [] call.op = "archive" ->
               /\ accounts' = SetArchived(call.id, 1)
               /\ hookCalls' = [hookCalls EXCEPT ![c] = [call EXCEPT !.pc = "resolved"]]
               /\ UNCHANGED nextId
          [] call.op = "unarchive" ->
               /\ accounts' = SetArchived(call.id, 0)
               /\ hookCalls' = [hookCalls EXCEPT ![c] = [call EXCEPT !.pc = "resolved"]]
               /\ UNCHANGED nextId
     /\ UNCHANGED <<transactions, clock, last, edit, dbVars, hook, editTx, reversing>>

\* updateAccount's getAccount runs: the account as stored now, or null
HookSelect(c) ==
  LET call == hookCalls[c]
  IN /\ call.pc = "select"
     /\ hookCalls' = [hookCalls EXCEPT ![c] =
                        [call EXCEPT !.pc = "resolved",
                                     !.result = IF call.id \in AccountIdsStored
                                                THEN RowToAccount(AccountRow(call.id))
                                                ELSE NULL]]
     /\ UNCHANGED <<accounts, transactions, nextId, clock, last, edit, dbVars, hook, editTx, reversing>>

\* add / update / archive / unarchive resume after the repository call has
\* resolved: await refresh()
HookResolved(c) ==
  /\ hookCalls[c].pc = "resolved"
  /\ RefreshBegin(c, hookCalls[c].op)
  /\ UNCHANGED <<accounts, transactions, nextId, clock, last, edit, dbVars, editTx, reversing>>

\* A catch that leaves the hook's error as it was.
HookRejectedSilent(c) ==
  /\ hookCalls[c].pc = "rejected"
  /\ hookCalls' = [hookCalls EXCEPT ![c] = SettledHookCall(hookCalls[c].op, NULL, 0, TRUE)]
  /\ UNCHANGED <<accounts, transactions, nextId, clock, last, edit, dbVars, hook, editTx, reversing>>

\* add / update resume after the repository call has rejected: the catch sets
\* error and returns null
HookRejected(c) ==
  /\ hookCalls[c].pc = "rejected"
  /\ hook' = [hook EXCEPT !.error = "CHECK constraint failed"]
  /\ hookCalls' = [hookCalls EXCEPT ![c] = SettledHookCall(hookCalls[c].op, NULL, 0, TRUE)]
  /\ UNCHANGED <<accounts, transactions, nextId, clock, last, edit, dbVars, editTx, reversing>>

\* The query of refresh runs: it reads the list off the store as it is now
HookQuery(c) ==
  LET call == hookCalls[c]
  IN /\ call.pc = "query"
     /\ \E list \in GetAccountsLists(hook.options) :
          hookCalls' = [hookCalls EXCEPT ![c] =
                          [call EXCEPT !.pc = "data", !.data = list,
                                       !.reads = call.reads + 1]]
     /\ UNCHANGED <<accounts, transactions, nextId, clock, last, edit, dbVars, hook, editTx, reversing>>

\* refresh resumes with the list: setAccounts, setError(null),
\* setLoading(false); then the function that awaited it returns
HookData(c) ==
  LET call == hookCalls[c]
  IN /\ call.pc = "data"
     /\ hook' = [hook EXCEPT !.accounts = call.data, !.error = NoError,
                             !.loading = FALSE]
     /\ hookCalls' = [hookCalls EXCEPT ![c] =
                        SettledHookCall(call.op,
                                        IF call.op \in {"add", "update"}
                                        THEN call.result ELSE NULL,
                                        call.reads, FALSE)]
     /\ UNCHANGED <<accounts, transactions, nextId, clock, last, edit, dbVars, editTx, reversing>>

----------------------------------------------------------------------------
\* The edit-transaction screen (app/transaction/edit/[id].tsx). `editTx` is
\* its state: the id it was opened on, the form and where it is.

\* EditTransactionScreen: its state before loadTransaction has run (the
\* useState initial values)
EditTxClosed ==
  [pc |-> "closed", id |-> NoId, found |-> FALSE, fromAccountId |-> NoId,
   toAccountId |-> NoId, amount |-> 0, tags |-> <<>>, note |-> ""]

\* EditTransactionScreen is opened on a transaction id: loadTransaction
\* starts and awaits getTransaction
EditTxOpen(id) ==
  /\ editTx.pc = "closed"
  /\ editTx' = [EditTxClosed EXCEPT !.pc = "loading", !.id = id]
  /\ UNCHANGED <<accounts, transactions, nextId, clock, last, edit, dbVars,
                 hook, hookCalls, reversing>>

\* EditTransactionScreen loadTransaction resumes with what getTransaction
\* read: the form takes the transaction's fields, a null note as ''
EditTxLoadTransaction ==
  /\ editTx.pc = "loading"
  /\ editTx' = IF HasTransaction(editTx.id)
               THEN LET data == GetTransaction(editTx.id)
                    IN [editTx EXCEPT !.pc = "ready", !.found = TRUE,
                                      !.fromAccountId = data.fromAccountId,
                                      !.toAccountId = data.toAccountId,
                                      !.amount = data.amount,
                                      !.tags = data.tags,
                                      !.note = IF data.note.null THEN ""
                                               ELSE data.note.text]
               ELSE [editTx EXCEPT !.pc = "ready"]
  /\ UNCHANGED <<accounts, transactions, nextId, clock, last, edit, dbVars,
                 hook, hookCalls, reversing>>

\* EditTransactionScreen handleSubmit: the input it passes to update
EditTxInput ==
  [fromAccountId |-> editTx.fromAccountId, toAccountId |-> editTx.toAccountId,
   amount |-> editTx.amount,
   tags |-> IF Len(editTx.tags) > 0 THEN editTx.tags ELSE <<>>,
   note |-> IF Trim(editTx.note) = "" THEN NULL ELSE Str(Trim(editTx.note))]

\* EditTransactionScreen handleSubmit, up to its await: the checks, each
\* ending in an alert, then the call of update
EditTxHandleSubmit ==
  /\ editTx.pc = "ready"
  /\ editTx.found
  /\ LET call == [op |-> "EditTransactionScreen.handleSubmit", stmts |-> 0]
     IN IF \/ editTx.fromAccountId = NoId
           \/ editTx.toAccountId = NoId
           \/ editTx.fromAccountId = editTx.toAccountId
           \/ editTx.amount <= 0
        THEN /\ last' = call @@ [status |-> "alert"]
             /\ UNCHANGED editTx
        ELSE /\ last' = call @@ [status |-> "submitting"]
             /\ editTx' = [editTx EXCEPT !.pc = "submitting"]
  /\ UNCHANGED <<accounts, transactions, nextId, clock, edit, dbVars,
                 hook, hookCalls, reversing>>

\* useTransactions update, as EditTransactionScreen handleSubmit awaits it:
\* updateTransaction with the input as passed; the screen goes back when a
\* transaction is returned and alerts otherwise
EditTxUpdate ==
  /\ editTx.pc = "submitting"
  /\ UpdateTransactionStore(editTx.id, EditTxInput)
  /\ editTx' = IF last'.status = "ok" THEN EditTxClosed
               ELSE [editTx EXCEPT !.pc = "ready"]
  /\ UNCHANGED <<accounts, nextId, clock, edit, dbVars, hook, hookCalls, reversing>>

\* The screen is left.
EditTxClose ==
  /\ editTx.pc = "ready"
  /\ editTx' = EditTxClosed
  /\ UNCHANGED <<accounts, transactions, nextId, clock, last, edit, dbVars,
                 hook, hookCalls, reversing>>

----------------------------------------------------------------------------
\* reverseTransaction in steps: its read of the original and its insert are
\* two awaited statements, and statements of other calls on the same handle
\* can run between them.

\* No reverseTransaction call in progress.
ReverseIdle == [pc |-> "idle", id |-> NoId, note |-> Undefined, original |-> <<>>]

\* queries.ts reverseTransaction up to its first await: getTransaction reads
\* the original, or finds none.
ReverseGetTransaction(transactionId, note) ==
  /\ reversing.pc = "idle"
  /\ reversing' = [pc |-> "read", id |-> transactionId, note |-> note,
                   original |-> IF HasTransaction(transactionId)
                                THEN <<GetTransaction(transactionId)>>
                                ELSE <<>>]
  /\ last' = [op |-> "getTransaction", status |-> "ok", stmts |-> 1,
              of |-> transactionId]
  /\ UNCHANGED <<accounts, transactions, nextId, clock, edit, dbVars,
                 hook, hookCalls, editTx>>

\* queries.ts reverseTransaction after its first await: it throws when the
\* read found nothing, and else passes the mirror of what it read to
\* createTransaction.
ReverseCreateTransaction ==
  /\ reversing.pc = "read"
  /\ IF reversing.original = <<>>
     THEN /\ last' = [op |-> "reverseTransaction", status |-> "error", stmts |-> 0,
                      error |-> "Transaction not found", of |-> reversing.id]
          /\ UNCHANGED <<transactions, nextId>>
     ELSE InsertTransaction(
            ReversalInput(reversing.original[1], reversing.id, reversing.note),
            [op |-> "reverseTransaction", of |-> reversing.id])
  /\ reversing' = ReverseIdle
  /\ UNCHANGED <<accounts, clock, edit, dbVars, hook, hookCalls, editTx>>

----------------------------------------------------------------------------
\* Inputs.

Amounts == {0, 1, 2}

Dates == 0..MaxDate

TagA == <<"a">>

TagQuote == <<"a", QT, CM, BS>>

AccountIdInputs == AccountIdsStored \cup {UnknownAccountId}

TransactionIdInputs == TransactionIdsStored \cup {UnknownTransactionId}

CreateAccountInputs == [name : {"Checking"}, type : AccountType]

ReverseNotes == {Undefined, Str(""), Str("Reversal")}

\* date, from, to and amount, and one of the given sets of optional fields
CreateTransactionInputs(dates, optional) ==
  {base @@ opt :
     base \in [date : dates, fromAccountId : AccountIdInputs,
               toAccountId : AccountIdInputs, amount : Amounts],
     opt \in optional}

NewTransactionForms ==
  [fromAccountId : {NoId} \cup AccountIdsStored,
   toAccountId : {NoId} \cup AccountIdsStored,
   amount : Amounts, tags : {<<>>}, note : {Str("")}]

----------------------------------------------------------------------------
\* The ledger: every repository call on the money-carrying fields, with any
\* input, in any order.

Init ==
  /\ accounts = {}
  /\ transactions = {}
  /\ nextId = [table \in {"account", "transaction"} |-> 1]
  /\ clock = 0
  /\ last = [op |-> "init", status |-> "ok", stmts |-> 0]
  /\ edit = EditClosed
  /\ db = 1
  /\ conn = [NoConnections EXCEPT !.next = 2, !.open = {1}, !.foreignKeys = {1},
                                  !.migrated = {1}, !.opens = 1, !.runs = 1]
  /\ schema = [objects |-> SchemaObjects, version |-> {SCHEMA_VERSION},
               completed |-> TRUE]
  /\ calls = [c \in Callers |-> [IdleCall EXCEPT !.pc = "resolved", !.ret = 1]]
  /\ hook = HookMounted(<<>>)
  /\ hookCalls = [c \in HookSlots |-> IdleHookCall]
  /\ editTx = EditTxClosed
  /\ reversing = ReverseIdle

LedgerCreateInputs == CreateTransactionInputs({Now}, {<<>>})

LedgerUpdateInputs ==
  {<<>>}
  \cup [amount : Amounts]
  \cup [fromAccountId : AccountIdInputs]
  \cup [toAccountId : AccountIdInputs]

Next ==
  \/ /\ IdsLeft("account", MaxAccounts)
     /\ \E input \in CreateAccountInputs : CreateAccount(input)
  \/ \E id \in AccountIdInputs : ArchiveAccount(id)
  \/ \E id \in AccountIdInputs : UnarchiveAccount(id)
  \/ /\ IdsLeft("transaction", MaxTransactions)
     /\ \E input \in LedgerCreateInputs : CreateTransaction(input)
  \/ \E id \in TransactionIdInputs, input \in LedgerUpdateInputs :
       UpdateTransaction(id, input)
  \/ \E id \in TransactionIdInputs : DeleteTransaction(id)
  \/ /\ IdsLeft("transaction", MaxTransactions)
     /\ \E id \in TransactionIdInputs : ReverseTransaction(id, Undefined)
  \/ /\ IdsLeft("transaction", MaxTransactions)
     /\ \E form \in NewTransactionForms : NewTransactionHandleSubmit(form)

Spec == Init /\ [][Next]_vars

----------------------------------------------------------------------------
\* The field-carrying calls: transactions with tags and notes between two
\* accounts, created, reversed with and without a note, edited and deleted.

FieldCreateInputs ==
  {base @@ opt :
     base \in [date : {Now}, fromAccountId : AccountIdsStored,
               toAccountId : AccountIdsStored, amount : {1}],
     opt \in {<<>>, [tags |-> <<TagA, TagQuote>>, note |-> Str("memo")]}}

FieldUpdateInputs == {<<>>, [tags |-> <<TagQuote>>, note |-> NULL]}

NextFields ==
  \/ /\ IdsLeft("account", MaxAccounts)
     /\ CreateAccount([name |-> "Checking", type |-> "internal"])
  \/ /\ IdsLeft("transaction", MaxFieldTransactions)
     /\ \E input \in FieldCreateInputs : CreateTransaction(input)
  \/ \E id \in TransactionIdsStored, input \in FieldUpdateInputs :
       UpdateTransaction(id, input)
  \/ \E id \in TransactionIdsStored : DeleteTransaction(id)
  \/ /\ IdsLeft("transaction", MaxFieldTransactions)
     /\ \E id \in TransactionIdInputs, note \in ReverseNotes :
          ReverseTransaction(id, note)

SpecFields == Init /\ [][NextFields]_vars

----------------------------------------------------------------------------
\* Listing: transactions of any date from any account into the first one,
\* created as time passes, and getTransactions with a filter.

ListCreateInputs ==
  [date : Dates, fromAccountId : AccountIdsStored,
   toAccountId : {<<"account", 1>>}, amount : {1}]

RangeFilters ==
  [accountId : AccountIdInputs, startDate : {0, 1}, endDate : {1, MaxDate}]

PageFilters == [limit : {1, 2}, offset : {0, 1}]

NextList ==
  \/ /\ IdsLeft("account", MaxAccounts)
     /\ CreateAccount([name |-> "Checking", type |-> "internal"])
  \/ /\ IdsLeft("transaction", MaxListTransactions)
     /\ \E input \in ListCreateInputs : CreateTransaction(input)
  \/ Tick
  \/ \E filter \in RangeFilters \cup PageFilters : GetTransactions(filter)

SpecList == Init /\ [][NextList]_vars

----------------------------------------------------------------------------
\* The edit-account screen beside the calls of other screens that create
\* accounts and transactions.

EditCreateInputs ==
  {input \in [date : {Now}, fromAccountId : AccountIdsStored,
              toAccountId : AccountIdsStored, amount : {1}] :
     input.fromAccountId # input.toAccountId}

NextEdit ==
  \/ /\ IdsLeft("account", MaxAccounts)
     /\ \E input \in CreateAccountInputs : CreateAccount(input)
  \/ /\ IdsLeft("transaction", MaxTransactions)
     /\ \E input \in EditCreateInputs : CreateTransaction(input)
  \/ \E id \in AccountIdInputs : EditLoadAccount(id)
  \/ EditCheckTransactions
  \/ \E name \in {"Savings", " "} : EditSetName(name)
  \/ \E type \in AccountType : EditSetType(type)
  \/ \E currency \in {" EUR", ""} : EditSetCurrency(currency)
  \/ EditHandleSubmit
  \/ EditClose

SpecEdit == Init /\ [][NextEdit]_vars

----------------------------------------------------------------------------
\* Accounts: created, archived and updated in any of their fields, beside a
\* transaction between them.

\* The record r with only the fields in F.
Restrict(r, F) == [f \in F |-> r[f]]

UpdateAccountInputs ==
  {Restrict(full, F) :
     full \in [name : {"Savings"}, type : AccountType, currency : {"EUR"}],
     F \in SUBSET {"name", "type", "currency"}}

NextAccounts ==
  \/ /\ IdsLeft("account", MaxAccounts)
     /\ \E input \in CreateAccountInputs : CreateAccount(input)
  \/ \E id \in AccountIdsStored : ArchiveAccount(id)
  \/ /\ IdsLeft("transaction", 1)
     /\ \E input \in EditCreateInputs : CreateTransaction(input)
  \/ \E id \in AccountIdInputs, input \in UpdateAccountInputs :
       UpdateAccount(id, input)

SpecAccounts == Init /\ [][NextAccounts]_vars

----------------------------------------------------------------------------
\* Editing transactions: two transactions between the accounts, updated in
\* any of their fields.

TransactionFields ==
  {"date", "fromAccountId", "toAccountId", "amount", "tags", "note"}

UpdateTransactionInputs ==
  {Restrict(full, F) :
     full \in [date : {1}, fromAccountId : {<<"account", 2>>},
               toAccountId : {<<"account", 1>>}, amount : {2},
               tags : {<<TagQuote>>}, note : {Str("memo")}],
     F \in {G \in SUBSET TransactionFields :
              \/ Cardinality(G) <= MaxSupplied
              \/ Cardinality(TransactionFields \ G) <= MaxSupplied}}

NextUpdate ==
  \/ /\ IdsLeft("account", MaxAccounts)
     /\ CreateAccount([name |-> "Checking", type |-> "internal"])
  \/ /\ IdsLeft("transaction", MaxTransactions)
     /\ \E input \in EditCreateInputs : CreateTransaction(input)
  \/ \E id \in TransactionIdInputs, input \in UpdateTransactionInputs :
       UpdateTransaction(id, input)

SpecUpdate == Init /\ [][NextUpdate]_vars

----------------------------------------------------------------------------
\* Listing with any combination of filter fields present and absent.

FilterFields == {"accountId", "startDate", "endDate", "limit", "offset"}

AnyFilters ==
  {Restrict(full, F) :
     full \in [accountId : {<<"account", 1>>}, startDate : {1}, endDate : {1},
               limit : {1}, offset : {1}],
     F \in SUBSET FilterFields}

NextFilters ==
  \/ /\ IdsLeft("account", MaxAccounts)
     /\ CreateAccount([name |-> "Checking", type |-> "internal"])
  \/ /\ IdsLeft("transaction", MaxTransactions)
     /\ \E input \in ListCreateInputs : CreateTransaction(input)
  \/ \E filter \in AnyFilters : GetTransactions(filter)

SpecFilters == Init /\ [][NextFilters]_vars

----------------------------------------------------------------------------
\* Perspectives: getTransactionPerspective on any viewer, from-account and
\* account types, beside the accounts being created.

PerspectiveInputs ==
  [currentAccountId : AccountIdInputs, currentAccountType : AccountType,
   fromAccountId : AccountIdInputs, fromAccountType : AccountType,
   toAccountType : AccountType]

NextPerspective ==
  \/ /\ IdsLeft("account", MaxAccounts)
     /\ \E input \in CreateAccountInputs : CreateAccount(input)
  \/ \E args \in PerspectiveInputs : GetTransactionPerspective(args)

SpecPerspective == Init /\ [][NextPerspective]_vars

----------------------------------------------------------------------------
\* The edit-transaction screen opened on transactions created with and
\* without tags and a note, and saved as loaded.

EditTxCreateInputs ==
  {base @@ opt :
     base \in [date : {Now}, fromAccountId : AccountIdsStored,
               toAccountId : AccountIdsStored, amount : {1}],
     opt \in {<<>>, [tags |-> <<TagA, TagQuote>>, note |-> Str("memo")],
              [note |-> Str("")]}}

NextEditTx ==
  \/ /\ IdsLeft("account", MaxAccounts)
     /\ CreateAccount([name |-> "Checking", type |-> "internal"])
  \/ /\ IdsLeft("transaction", MaxTransactions)
     /\ editTx.pc = "closed"
     /\ \E input \in EditTxCreateInputs : CreateTransaction(input)
  \/ Tick
  \/ \E id \in TransactionIdInputs : EditTxOpen(id)
  \/ EditTxLoadTransaction
  \/ EditTxHandleSubmit
  \/ EditTxUpdate
  \/ EditTxClose

SpecEditTx == Init /\ [][NextEditTx]_vars

----------------------------------------------------------------------------
\* Paging: transactions of any date, created in the same millisecond or in
\* different ones, and read page after page.

PageSizes == {1, 2}

PagedFilters == {<<>>, [accountId |-> <<"account", 2>>]}

NextPages ==
  \/ /\ IdsLeft("account", MaxAccounts)
     /\ CreateAccount([name |-> "Checking", type |-> "internal"])
  \/ /\ IdsLeft("transaction", MaxTransactions)
     /\ \E input \in ListCreateInputs : CreateTransaction(input)
  \/ Tick
  \/ \E filter \in PagedFilters, L \in PageSizes : GetTransactionsPages(filter, L)

SpecPages == Init /\ [][NextPages]_vars

----------------------------------------------------------------------------
\* Reversals next to edits: a reverseTransaction call runs in its two steps
\* while transactions are updated and deleted.

ReverseUpdateInputs ==
  {[amount |-> 2],
   [fromAccountId |-> <<"account", 2>>, toAccountId |-> <<"account", 1>>]}

NextReverse ==
  \/ /\ IdsLeft("account", MaxAccounts)
     /\ CreateAccount([name |-> "Checking", type |-> "internal"])
  \/ /\ IdsLeft("transaction", MaxTransactions)
     /\ \E input \in EditCreateInputs : CreateTransaction(input)
  \/ \E id \in TransactionIdInputs, note \in {Undefined, Str("Reversal")} :
       ReverseGetTransaction(id, note)
  \/ /\ reversing.original # <<>> => IdsLeft("transaction", MaxListTransactions)
     /\ ReverseCreateTransaction
  \/ \E id \in TransactionIdsStored, input \in ReverseUpdateInputs :
       UpdateTransaction(id, input)
  \/ \E id \in TransactionIdsStored : DeleteTransaction(id)

SpecReverse == Init /\ [][NextReverse]_vars

----------------------------------------------------------------------------
\* One useAccounts instance over a store that only its calls change: any of
\* its functions is called at any time, also while others are in progress.

HookOptions == {<<>>, [type |-> "internal"], [includeArchived |-> TRUE]}

HookAddInputs == [name : {"Checking"}, type : {"internal", "external", "savings"}]

HookUpdateInputs == {<<>>, [name |-> "Savings"], [type |-> "savings"]}

InitHook ==
  /\ accounts = {}
  /\ transactions = {}
  /\ nextId = [table \in {"account", "transaction"} |-> 1]
  /\ clock = 0
  /\ last = [op |-> "init", status |-> "ok", stmts |-> 0]
  /\ edit = EditClosed
  /\ db = 1
  /\ conn = [NoConnections EXCEPT !.next = 2, !.open = {1}, !.foreignKeys = {1},
                                  !.migrated = {1}, !.opens = 1, !.runs = 1]
  /\ schema = [objects |-> SchemaObjects, version |-> {SCHEMA_VERSION},
               completed |-> TRUE]
  /\ calls = [c \in Callers |-> [IdleCall EXCEPT !.pc = "resolved", !.ret = 1]]
  /\ \E options \in HookOptions : hook = HookMounted(options)
  /\ hookCalls = [c \in HookSlots |-> IdleHookCall]
  /\ editTx = EditTxClosed
  /\ reversing = ReverseIdle

NextHook ==
  \/ \E c \in HookSlots : UseDatabaseInit(c)
  \/ \E c \in HookSlots : HookStart(c, "refresh", NoId, <<>>)
  \/ \E c \in HookSlots, input \in HookAddInputs : HookStart(c, "add", NoId, input)
  \/ \E c \in HookSlots, id \in AccountIdInputs, input \in HookUpdateInputs :
       HookStart(c, "update", id, input)
  \/ \E c \in HookSlots, id \in AccountIdsStored : HookStart(c, "archive", id, <<>>)
  \/ \E c \in HookSlots, id \in AccountIdsStored : HookStart(c, "unarchive", id, <<>>)
  \/ \E c \in HookSlots :
       /\ hookCalls[c].op = "add" => IdsLeft("account", MaxHookAccounts)
       /\ HookStatement(c)
  \/ \E c \in HookSlots : HookSelect(c)
  \/ \E c \in HookSlots : HookResolved(c)
  \/ \E c \in HookSlots : HookRejected(c)
  \/ \E c \in HookSlots : HookQuery(c)
  \/ \E c \in HookSlots : HookData(c)

SpecHook == InitHook /\ [][NextHook]_vars

----------------------------------------------------------------------------
\* Startup: the callers of getDatabase on a device where nothing was run
\* before, closeDatabase, failing statements and restarts.

InitDb ==
  /\ accounts = {}
  /\ transactions = {}
  /\ nextId = [table \in {"account", "transaction"} |-> 1]
  /\ clock = 0
  /\ last = [op |-> "init", status |-> "ok", stmts |-> 0]
  /\ edit = EditClosed
  /\ db = NoHandle
  /\ conn = NoConnections
  /\ schema = EmptySchema
  /\ calls = [c \in Callers |-> IdleCall]
  /\ hook = HookMounted(<<>>)
  /\ hookCalls = [c \in HookSlots |-> IdleHookCall]
  /\ editTx = EditTxClosed
  /\ reversing = ReverseIdle

NextDb ==
  \/ \E c \in Callers : GetDatabase(c)
  \/ /\ conn.next <= MaxHandles
     /\ \E c \in Callers : OpenDatabaseAsync(c)
  \/ \E c \in Callers : PragmaForeignKeys(c)
  \/ \E c \in Callers : CreateSchemaVersionTable(c)
  \/ \E c \in Callers : SelectSchemaVersion(c)
  \/ \E c \in Callers : MigrateToV1(c)
  \/ \E c \in Callers : DeleteSchemaVersion(c)
  \/ \E c \in Callers : InsertSchemaVersion(c)
  \/ \E c \in Callers : ExecFails(c)
  \/ CloseDatabase
  \/ CloseDatabaseDone
  \/ Restart

SpecDb == InitDb /\ [][NextDb]_vars

\* A repository call can be made with the handle a getDatabase call resolved
\* to, on a store that has the tables.
Ready ==
  /\ \E c \in Callers : calls[c].pc = "resolved" /\ Usable(calls[c].ret)
  /\ {"accounts", "transactions"} \subseteq schema.objects

\* Startup by RootLayout alone, run after run, with accounts and a
\* transaction created once the database is ready.
NextMigrate ==
  \/ GetDatabase("RootLayout")
  \/ /\ conn.next <= MaxHandles
     /\ OpenDatabaseAsync("RootLayout")
  \/ PragmaForeignKeys("RootLayout")
  \/ CreateSchemaVersionTable("RootLayout")
  \/ SelectSchemaVersion("RootLayout")
  \/ MigrateToV1("RootLayout")
  \/ DeleteSchemaVersion("RootLayout")
  \/ InsertSchemaVersion("RootLayout")
  \/ ExecFails("RootLayout")
  \/ CloseDatabase
  \/ CloseDatabaseDone
  \/ Restart
  \/ /\ Ready /\ IdsLeft("account", MaxAccounts)
     /\ \E input \in CreateAccountInputs : CreateAccount(input)
  \/ /\ Ready /\ IdsLeft("transaction", 1)
     /\ \E input \in EditCreateInputs : CreateTransaction(input)

SpecMigrate == InitDb /\ [][NextMigrate]_vars

----------------------------------------------------------------------------
\* Properties of the ledger.

RECURSIVE SumAmounts(_)
SumAmounts(rows) ==
  IF rows = {} THEN 0
  ELSE LET r == CHOOSE x \in rows : TRUE
       IN r.amount + SumAmounts(rows \ {r})

Inflow(A) == SumAmounts({t \in transactions : t.to_account_id = A})

Outflow(A) == SumAmounts({t \in transactions : t.from_account_id = A})

\* C1: in every state the repository calls reach, the balance of every
\* account id (stored or not) is the sum of the amounts of the stored
\* transactions to it minus the sum of those from it, and is 0 when no stored
\* transaction names it.
C1_BalanceIdentity ==
  \A A \in AccountIdInputs :
    /\ GetAccountBalance(A) = Inflow(A) - Outflow(A)
    /\ ~HasTransactions(A) => GetAccountBalance(A) = 0

\* An update has just changed one of two stored transactions and some account
\* holds money.
C1_Witness ==
  /\ last.op = "updateTransaction" /\ last.status = "ok"
  /\ Cardinality(transactions) = 2
  /\ \E A \in AccountIdsStored : GetAccountBalance(A) > 0

InternalOpen == {a \in accounts : a.type = "internal" /\ a.archived = 0}

\* C2: in every state the net worth is the sum of the balances of the
\* accounts that are internal and not archived.
C2_NetWorthComposition ==
  GetNetWorth = SumOver([a \in InternalOpen |-> GetAccountBalance(a.id)])

\* C3: every stored transaction has an amount above zero.
C3_PositiveAmounts == \A t \in transactions : t.amount > 0

\* A create or an update of a non-positive amount has just been rejected, and
\* transactions are stored.
C3_Witness ==
  /\ last.op \in {"createTransaction", "updateTransaction"}
  /\ last.status = "error" /\ last.error = "CHECK constraint failed"
  /\ transactions # {}

\* C9: every stored transaction has a from account other than its to account.
C9_DistinctEnds == \A t \in transactions : t.from_account_id # t.to_account_id

ReferentialIntegrity ==
  \A t \in transactions :
    /\ t.from_account_id \in AccountIdsStored
    /\ t.to_account_id \in AccountIdsStored

NamesMissingAccount(input) ==
  \/ Supplied(input, "fromAccountId") /\ input.fromAccountId \notin AccountIdsStored
  \/ Supplied(input, "toAccountId") /\ input.toAccountId \notin AccountIdsStored

\* A step that is a createTransaction or an updateTransaction naming an
\* account id that is not stored.
MissingAccountAttempt ==
  \/ /\ last'.op = "createTransaction"
     /\ \E input \in LedgerCreateInputs :
          NamesMissingAccount(input) /\ CreateTransaction(input)
  \/ /\ last'.op = "updateTransaction"
     /\ \E id \in TransactionIdInputs, input \in LedgerUpdateInputs :
          NamesMissingAccount(input) /\ UpdateTransaction(id, input)

\* C8: in every state the from and to account of every stored transaction are
\* stored accounts, and a createTransaction or updateTransaction naming an
\* account id that is not stored does not succeed (the statement is rejected,
\* or the update finds no transaction and returns absent) and leaves the
\* transaction log as it was.
C8_ReferentialIntegrity ==
  [][/\ ReferentialIntegrity'
     /\ MissingAccountAttempt =>
          (last'.status \in {"error", "absent"} /\ transactions' = transactions)]_vars

\* A create naming a missing account has just been rejected by the foreign
\* key, with transactions stored.
C8_Witness ==
  /\ last.op = "createTransaction" /\ last.status = "error"
  /\ last.error = "FOREIGN KEY constraint failed"
  /\ transactions # {}

NonPositive(input) == Supplied(input, "amount") /\ input.amount <= 0

\* A step that is a call of a repository function to create or update a
\* transaction with an amount <= 0.
NonPositiveCall ==
  \/ /\ last'.op = "createTransaction"
     /\ \E input \in LedgerCreateInputs :
          NonPositive(input) /\ CreateTransaction(input)
  \/ /\ last'.op = "updateTransaction"
     /\ \E id \in TransactionIdInputs, input \in LedgerUpdateInputs :
          NonPositive(input) /\ UpdateTransaction(id, input)

\* A step that is a submit of the new-transaction form with an amount <= 0.
NonPositiveSubmit ==
  /\ last'.op = "NewTransactionScreen.handleSubmit"
  /\ \E form \in NewTransactionForms :
       NonPositive(form) /\ NewTransactionHandleSubmit(form)

\* queries.ts getTransactions with no filter, as the set of what it returns
GetTransactionsAll == {RowToTransaction(t) : t \in transactions}

\* C10 as stated: an attempt to create or update a transaction with an
\* amount <= 0 fails with no statement executed against the store, and
\* getTransactions() returns the same rows after it as before.
C10_FailsBeforeStorage ==
  [][(NonPositiveCall \/ NonPositiveSubmit) =>
       /\ last'.status # "ok"
       /\ last'.stmts = 0
       /\ GetTransactionsAll' = GetTransactionsAll]_vars

\* C10 amended: such an attempt fails and getTransactions() returns the same
\* rows after it as before; the form's submit fails with no statement
\* executed, a repository call fails when the store rejects the statement it
\* executed (or when the update finds no transaction).
C10_FailsWithoutStoring ==
  [][((NonPositiveCall \/ NonPositiveSubmit) =>
        (last'.status # "ok" /\ GetTransactionsAll' = GetTransactionsAll))
     /\ (NonPositiveSubmit => last'.stmts = 0)
     /\ ((NonPositiveCall /\ last'.status = "error") =>
           (last'.stmts = 1 /\ last'.error = "CHECK constraint failed"))]_vars

\* An update to an amount <= 0 has just been rejected; the transaction is
\* still stored.
C10_Witness ==
  /\ last.op = "updateTransaction" /\ last.status = "error"
  /\ last.error = "CHECK constraint failed"
  /\ transactions # {}

\* A step that is a reverseTransaction of a stored transaction.
ReverseOfStored ==
  /\ last'.op = "reverseTransaction"
  /\ \E id \in TransactionIdsStored, note \in ReverseNotes :
       ReverseTransaction(id, note)

\* C4: reverseTransaction of a stored transaction T succeeds, leaves T, every
\* other stored transaction row and every account row as they were
\* (getTransaction(T.id) returns the same value after as before) and adds
\* exactly one transaction row, whose id no stored row had.
C4_AppendOnlyReversal ==
  [][ReverseOfStored =>
       /\ last'.status = "ok"
       /\ \E T \in TransactionIdsStored :
            last'.of = T /\ GetTransaction(T)' = GetTransaction(T)
       /\ accounts' = accounts
       /\ transactions \subseteq transactions'
       /\ Cardinality(transactions' \ transactions) = 1
       /\ \A n \in transactions' \ transactions :
            n.id \notin TransactionIdsStored /\ n.id = last'.ret.id]_vars

\* A reversal has just been added to a log that held another transaction
\* besides the reversed one.
C4_Witness ==
  /\ last.op = "reverseTransaction" /\ last.status = "ok"
  /\ Cardinality(transactions) = 3

\* C5: the transaction reverseTransaction(T.id, note) returns is the row it
\* stored; its from is T's to, its to is T's from, its amount and tags are
\* T's, and its note is the note passed or, when none was passed, a text
\* holding T's id.
C5_ReversalFields ==
  [][\A id \in TransactionIdsStored, note \in ReverseNotes :
       (last'.op = "reverseTransaction" /\ ReverseTransaction(id, note)) =>
         /\ last'.status = "ok"
         /\ \E n \in transactions' \ transactions :
              RowToTransaction(n) = last'.ret
         /\ last'.ret.fromAccountId = GetTransaction(id).toAccountId
         /\ last'.ret.toAccountId = GetTransaction(id).fromAccountId
         /\ last'.ret.amount = GetTransaction(id).amount
         /\ last'.ret.tags = GetTransaction(id).tags
         /\ IF note = Undefined
            THEN ~last'.ret.note.null /\ last'.ret.note.ref = id
            ELSE last'.ret.note = note]_vars

\* A transaction with tags has just been reversed with the empty text as the
\* note.
C5_Witness ==
  /\ last.op = "reverseTransaction" /\ last.status = "ok"
  /\ Len(last.ret.tags) = 2
  /\ last.ret.note = Str("")

\* A transaction has just been reversed with no note passed.
C5_WitnessDefaultNote ==
  /\ last.op = "reverseTransaction" /\ last.status = "ok"
  /\ last.ret.note.ref = last.of

CreatedBy == {"createTransaction", "NewTransactionScreen.handleSubmit"}

\* C6: when a transaction is created and the very next call reverses it, the
\* balance of every account and the net worth are what they were before the
\* transaction was created.
C6_ReverseRestores ==
  [][(/\ last.op \in CreatedBy /\ last.status = "ok"
      /\ last'.op = "reverseTransaction" /\ last'.status = "ok"
      /\ last'.of = last.ret.id) =>
       /\ \A A \in AccountIdsStored :
            GetAccountBalance(A)' = last.before.balance[A]
       /\ GetNetWorth' = last.before.netWorth]_vars

\* C7: when the edit-account screen submits while a stored transaction names
\* the account, the account's type and currency are after the submit what
\* they were before it.
C7_ImmutabilityGate ==
  [][(/\ last'.op = "EditAccountScreen.handleSubmit"
      /\ EditHandleSubmit
      /\ HasTransactions(edit.id)) =>
       \A a \in accounts :
         a.id = edit.id =>
           \E b \in accounts' :
             b.id = a.id /\ b.type = a.type /\ b.currency = a.currency]_vars

Listed == last.op = "getTransactions" /\ last.status = "ok"

\* The elements of a list.
Elements(list) == {list[i] : i \in 1..Len(list)}

\* A list is by date descending and, for equal dates, createdAt descending.
DateThenCreatedDescending(list) ==
  \A i, j \in 1..Len(list) :
    i < j => \/ list[i].date > list[j].date
             \/ list[i].date = list[j].date /\ list[i].createdAt >= list[j].createdAt

\* C11: what getTransactions({accountId: X, startDate: S, endDate: E}) has
\* just returned holds exactly the stored transactions with from = X or to = X
\* and S <= date <= E, each once, by date descending and, for equal dates, by
\* createdAt descending.
C11_FilterComposition ==
  (Listed /\ DOMAIN last.filter = {"accountId", "startDate", "endDate"}) =>
    LET X == last.filter.accountId
        S == last.filter.startDate
        E == last.filter.endDate
        expected == {RowToTransaction(t) :
                       t \in {r \in transactions :
                                /\ r.from_account_id = X \/ r.to_account_id = X
                                /\ S <= r.date /\ r.date <= E}}
    IN /\ Elements(last.ret) = expected
       /\ Len(last.ret) = Cardinality(expected)
       /\ DateThenCreatedDescending(last.ret)

\* A filtered listing has just returned two transactions of different dates
\* and left out one for its account and one for its date.
C11_Witness ==
  /\ Listed /\ DOMAIN last.filter = {"accountId", "startDate", "endDate"}
  /\ Len(last.ret) = 2 /\ last.ret[1].date > last.ret[2].date
  /\ \E t \in transactions :
       /\ t.from_account_id # last.filter.accountId
       /\ t.to_account_id # last.filter.accountId
  /\ Cardinality(transactions) = 3

\* The lists getTransactions may return for no filter: every stored
\* transaction once, by date descending then createdAt descending.
UnpagedLists ==
  {list \in [1..Cardinality(transactions) -> GetTransactionsAll] :
     /\ Elements(list) = GetTransactionsAll
     /\ DateThenCreatedDescending(list)}

\* C12: what getTransactions({limit: L, offset: O}) has just returned is the
\* elements at positions O .. O+L-1 (0-based, fewer if the list ends) of a
\* list the call without limit and offset returns; on three transactions of
\* three different dates, {limit: 1, offset: 1} returns only the one of the
\* middle date.
C12_LimitOffset ==
  (Listed /\ DOMAIN last.filter = {"limit", "offset"}) =>
    LET L == last.filter.limit
        O == last.filter.offset
        n == Cardinality(transactions)
        left == IF n > O THEN n - O ELSE 0
    IN /\ Len(last.ret) = IF L < left THEN L ELSE left
       /\ \E full \in UnpagedLists :
            \A i \in 1..Len(last.ret) : last.ret[i] = full[O + i]
       /\ (/\ L = 1 /\ O = 1 /\ n = 3
           /\ \A a, b \in transactions : a # b => a.date # b.date) =>
            /\ Len(last.ret) = 1
            /\ \E a, b \in transactions :
                 a.date > last.ret[1].date /\ last.ret[1].date > b.date

\* {limit: 1, offset: 1} has just returned one of three transactions of three
\* different dates.
C12_Witness ==
  /\ Listed /\ last.filter = [limit |-> 1, offset |-> 1]
  /\ Cardinality(transactions) = 3
  /\ \A a, b \in transactions : a # b => a.date # b.date
  /\ Len(last.ret) = 1

\* C13: once a runMigrations has completed, the schema_version table holds
\* exactly one row in every state, the states between the statements of a
\* later runMigrations and after a stop between them included.
C13_OneVersionRow == schema.completed => Cardinality(schema.version) = 1

\* C14: the handle a getDatabase call has resolved to is one on which a
\* runMigrations has completed.
C14_MigratedBeforeReturned ==
  \A c \in Callers :
    calls[c].pc = "resolved" =>
      (calls[c].ret # NoHandle /\ calls[c].ret \in conn.migrated)

\* C15: since the last closeDatabase the database was opened at most once and
\* the migrations were started at most once, and all getDatabase calls that
\* have resolved since hold the same handle.
C15_OpenedOnce ==
  /\ conn.opens <= 1
  /\ conn.runs <= 1
  /\ \A c, d \in Callers :
       (calls[c].pc = "resolved" /\ calls[d].pc = "resolved") =>
         calls[c].ret = calls[d].ret

\* The step with which a runMigrations that found the store at SCHEMA_VERSION
\* completes.
CompletesAtVersion(c) ==
  /\ calls[c].pc = "insertVersion" /\ calls'[c].pc = "resolved"
  /\ calls[c].currentVersion = SCHEMA_VERSION

\* C16: no step of runMigrations changes an accounts row or a transactions
\* row, and a runMigrations that found the store at SCHEMA_VERSION leaves,
\* when it completes, the stored version at SCHEMA_VERSION and the store as it
\* was when the run began (so a second run leaves what the first left).
C16_MigrationsIdempotent ==
  [][/\ calls' # calls => (accounts' = accounts /\ transactions' = transactions)
     /\ \A c \in Callers :
          CompletesAtVersion(c) =>
            /\ schema'.version = {SCHEMA_VERSION}
            /\ schema' = calls[c].start
            /\ calls[c].start.version = {SCHEMA_VERSION}]_vars

\* A runMigrations that found the store at SCHEMA_VERSION has completed on a
\* store holding accounts and a transaction.
C16_Witness ==
  /\ calls["RootLayout"].pc = "resolved"
  /\ calls["RootLayout"].currentVersion = SCHEMA_VERSION
  /\ calls["RootLayout"].ret \in conn.migrated
  /\ Cardinality(accounts) = 2 /\ transactions # {}

\* C17: archiveAccount(A) on an internal account A that is not archived
\* changes the net worth by exactly -getAccountBalance(A) and leaves every
\* balance, every transaction row and every other account row as it was.
C17_ArchiveNetWorth ==
  [][\A A \in AccountIdsStored :
       (/\ last'.op = "archiveAccount"
        /\ ArchiveAccount(A)
        /\ AccountRow(A).type = "internal" /\ AccountRow(A).archived = 0) =>
         /\ GetNetWorth' = GetNetWorth - GetAccountBalance(A)
         /\ \A B \in AccountIdInputs : GetAccountBalance(B)' = GetAccountBalance(B)
         /\ transactions' = transactions
         /\ {a \in accounts' : a.id # A} = {a \in accounts : a.id # A}]_vars

\* C18: reverseTransaction(id) for an id no stored transaction has raises
\* "Transaction <id> not found" with no statement run, and the transaction
\* log is after the call what it was before.
C18_ReverseMissing ==
  [][\A id \in TransactionIdInputs \ TransactionIdsStored, note \in ReverseNotes :
       (last'.op = "reverseTransaction" /\ ReverseTransaction(id, note)) =>
         /\ last'.status = "error"
         /\ last'.error = "Transaction not found" /\ last'.of = id
         /\ last'.stmts = 0
         /\ transactions' = transactions
         /\ GetTransactionsAll' = GetTransactionsAll]_vars

\* A reversal of an id that is not stored has just been refused, with
\* transactions stored.
C18_Witness ==
  /\ last.op = "reverseTransaction" /\ last.status = "error"
  /\ last.of \notin TransactionIdsStored
  /\ transactions # {}

\* C19: updateAccount(id, input) sets exactly those of name, type and
\* currency that input supplies and leaves the account's id, createdAt,
\* archived and other fields, every other account and every transaction as
\* they were; it returns the account as stored after it; with no field
\* supplied it runs no statement and changes nothing.
C19_UpdateAccountFrame ==
  [][\A id \in AccountIdInputs, input \in UpdateAccountInputs :
       (last'.op = "updateAccount" /\ UpdateAccount(id, input)) =>
         /\ transactions' = transactions
         /\ {a \in accounts' : a.id # id} = {a \in accounts : a.id # id}
         /\ Cardinality(accounts') = Cardinality(accounts)
         /\ DOMAIN input = {} => (last'.stmts = 0 /\ accounts' = accounts)
         /\ id \notin AccountIdsStored => last'.status = "absent"
         /\ id \in AccountIdsStored =>
              \E new \in accounts' :
                LET old == AccountRow(id)
                IN /\ new.id = id
                   /\ new.created_at = old.created_at
                   /\ new.archived = old.archived
                   /\ new.name = IF "name" \in DOMAIN input
                                 THEN input.name ELSE old.name
                   /\ new.type = IF "type" \in DOMAIN input
                                 THEN input.type ELSE old.type
                   /\ new.currency = IF "currency" \in DOMAIN input
                                     THEN input.currency ELSE old.currency
                   /\ last'.status = "ok"
                   /\ last'.ret = RowToAccount(new)]_vars

\* An update has just renamed one of two accounts, an archived, external one
\* in the default currency, with a transaction stored.
C19_Witness ==
  /\ last.op = "updateAccount" /\ last.status = "ok" /\ last.stmts = 1
  /\ last.ret.name = "Savings" /\ last.ret.currency = "USD"
  /\ last.ret.type = "external" /\ last.ret.archived
  /\ Cardinality(accounts) = 2 /\ transactions # {}

CategoryOf(t) ==
  CategorizeTransaction(AccountRow(t.from_account_id).type,
                        AccountRow(t.to_account_id).type)

\* The sum of the amounts of the stored transactions of a category.
CategoryTotal(category) ==
  SumAmounts({t \in transactions : CategoryOf(t) = category})

\* C22: every income/expense aggregate counts a transaction as income only
\* when it goes external -> internal and as expense only when it goes
\* internal -> external, so that no total exceeds the sum of the amounts of
\* that category and a transfer adds to neither: for
\* calculateIncomeAndExpenses over all transactions and accounts, and for the
\* dashboard's totalIncome and totalExpenses.
C22_TransfersExcluded ==
  LET all == GetAllAccounts(TRUE)
  IN /\ \A t \in CalculateCounted(transactions, all, "income") :
          CategoryOf(t) = "income"
     /\ \A t \in CalculateCounted(transactions, all, "expense") :
          CategoryOf(t) = "expense"
     /\ CalculateIncomeAndExpenses(transactions, all).income <= CategoryTotal("income")
     /\ CalculateIncomeAndExpenses(transactions, all).expenses <= CategoryTotal("expense")
     /\ \A t \in DashboardIncomeRows : CategoryOf(t) = "income"
     /\ \A t \in DashboardExpenseRows : CategoryOf(t) = "expense"
     /\ DashboardTotalIncome <= CategoryTotal("income")
     /\ DashboardTotalExpenses <= CategoryTotal("expense")

\* C23: an add or update of useAccounts whose repository call resolved
\* returns the repository's result and has read the account list once, after
\* that call; one whose repository call rejected returns null, sets the
\* hook's error to an Error and has not read the list.
C23_AddUpdateOutcome ==
  [][\A c \in HookSlots :
       hookCalls[c].op \in {"add", "update"} =>
         /\ hookCalls[c].pc \in {"statement", "select", "resolved", "rejected"} =>
              hookCalls[c].reads = 0
         /\ (hookCalls[c].pc = "data" /\ hookCalls'[c].pc = "settled") =>
              /\ hookCalls'[c].ret = hookCalls[c].result
              /\ hookCalls'[c].reads = 1
              /\ ~hookCalls'[c].failed
         /\ (hookCalls[c].pc = "rejected" /\ hookCalls'[c].pc = "settled") =>
              /\ hookCalls'[c].ret = NULL
              /\ hookCalls'[c].reads = 0
              /\ hook'.error # NoError]_vars

\* An add has returned the account it created after one read of the list, and
\* an update has returned null after its repository call rejected.
C23_Witness ==
  \E c, d \in HookSlots :
    /\ hookCalls[c].op = "add" /\ hookCalls[c].pc = "settled"
    /\ hookCalls[c].ret # NULL /\ hookCalls[c].reads = 1
    /\ hookCalls[d].op = "update" /\ hookCalls[d].pc = "settled"
    /\ hookCalls[d].failed /\ hookCalls[d].ret = NULL /\ hook.error # NoError

\* C30: when the hook is ready and every call it started has settled without
\* error, its accounts are a list getAllAccounts / getAccountsByType returns
\* for the store as it is now, and loading is false.
C30_AccountsCurrent ==
  (/\ hook.isReady
   /\ \A c \in HookSlots : HookFree(c) /\ ~hookCalls[c].failed) =>
    /\ hook.accounts \in GetAccountsLists(hook.options)
    /\ hook.loading = FALSE

\* The transactions matching the conditions of a filter, as lists in the
\* order of getTransactions.
MatchingLists(filter) ==
  LET matching == {RowToTransaction(t) :
                     t \in {x \in transactions : FilterMatches(x, filter)}}
  IN {list \in [1..Cardinality(matching) -> matching] :
        /\ Elements(list) = matching
        /\ DateThenCreatedDescending(list)}

\* C24: getTransactions succeeds for every combination of present and absent
\* filter fields, an absent field imposing no constraint: what it has just
\* returned is the ordered list of the transactions matching the fields
\* present, from position offset (0 when absent) for limit elements (to the
\* end when absent); so the empty filter returns every transaction and an
\* offset without limit returns all matching ones but the first offset.
C24_AbsentFieldsUnconstrained ==
  last.op = "getTransactions" =>
    /\ last.status = "ok"
    /\ \E list \in MatchingLists(last.filter) :
         LET offset == IF "offset" \in DOMAIN last.filter
                       THEN last.filter.offset ELSE 0
             end == IF "limit" \in DOMAIN last.filter
                       /\ offset + last.filter.limit < Len(list)
                    THEN offset + last.filter.limit ELSE Len(list)
         IN last.ret = SubSeq(list, offset + 1, end)

\* The same, for the filters that do not have an offset without a limit.
C24_WithLimitOrNoOffset ==
  (last.op = "getTransactions"
   /\ ~("offset" \in DOMAIN last.filter /\ "limit" \notin DOMAIN last.filter)) =>
    /\ last.status = "ok"
    /\ \E list \in MatchingLists(last.filter) :
         LET offset == IF "offset" \in DOMAIN last.filter
                       THEN last.filter.offset ELSE 0
             end == IF "limit" \in DOMAIN last.filter
                       /\ offset + last.filter.limit < Len(list)
                    THEN offset + last.filter.limit ELSE Len(list)
         IN last.ret = SubSeq(list, offset + 1, end)

\* C25: getTransactionPerspective returns, for an internal viewer, 'from'
\* exactly when fromAccountId is the viewer's id and 'to' otherwise; for an
\* external viewer, 'to' when the transaction goes external -> internal,
\* 'from' when it goes internal -> external and 'neutral' for every other pair
\* of account types, whichever side the viewer is on.
C25_Perspective ==
  last.op = "getTransactionPerspective" =>
    LET a == last.args
    IN IF a.currentAccountType = "internal"
       THEN last.ret = IF a.fromAccountId = a.currentAccountId THEN "from" ELSE "to"
       ELSE last.ret =
              IF a.fromAccountType = "external" /\ a.toAccountType = "internal"
              THEN "to"
              ELSE IF a.fromAccountType = "internal" /\ a.toAccountType = "external"
              THEN "from"
              ELSE "neutral"

\* An external viewer that is the from-account of an income transaction has
\* just got 'to'.
C25_Witness ==
  /\ last.op = "getTransactionPerspective"
  /\ last.args.currentAccountType = "external"
  /\ last.args.currentAccountId = last.args.fromAccountId
  /\ last.args.fromAccountType = "external"
  /\ last.args.toAccountType = "internal"
  /\ last.ret = "to"

\* C26: when the edit-transaction screen, opened on a stored transaction and
\* with no field changed, is saved, getTransaction(id) is afterwards what it
\* was before the save in every field, also when the stored note is null.
C26_SaveAsLoaded ==
  [][(editTx.pc = "submitting" /\ editTx'.pc # "submitting") =>
       /\ editTx.id \in {t.id : t \in transactions'}
       /\ \A old \in transactions, new \in transactions' :
            (old.id = editTx.id /\ new.id = editTx.id) =>
              RowToTransaction(new) = RowToTransaction(old)]_vars

\* The same, for the transactions whose stored note is not null.
C26_SaveAsLoadedWithNote ==
  [][(editTx.pc = "submitting" /\ editTx'.pc # "submitting") =>
       /\ editTx.id \in {t.id : t \in transactions'}
       /\ \A old \in transactions, new \in transactions' :
            (old.id = editTx.id /\ new.id = editTx.id /\ ~old.note.null) =>
              RowToTransaction(new) = RowToTransaction(old)]_vars

\* C27: in every state the repository calls reach, every stored transaction
\* is from a stored account to a stored account, and the sum of
\* getAccountBalance over all stored accounts (internal and external, archived
\* or not) is 0.
C27_BalancesSumToZero ==
  /\ \A t \in transactions :
       t.from_account_id \in AccountIdsStored /\ t.to_account_id \in AccountIdsStored
  /\ SumOver([a \in accounts |-> GetAccountBalance(a.id)]) = 0

\* Two accounts, one of them archived, with balances other than 0, and a
\* transaction from an account to itself beside one between the two.
C27_Witness ==
  /\ \E a \in accounts : a.archived = 1 /\ GetAccountBalance(a.id) # 0
  /\ \E a \in accounts : a.archived = 0 /\ GetAccountBalance(a.id) # 0
  /\ \E t \in transactions : t.from_account_id = t.to_account_id
  /\ \E t \in transactions : t.from_account_id # t.to_account_id

\* The transactions on the pages just read, page by page.
PageElements(k) == Elements(last.pages[k])

\* The pages just read hold every matching transaction exactly once.
PagesPartition ==
  LET K == Len(last.pages)
      matching == {RowToTransaction(t) :
                     t \in {x \in transactions : FilterMatches(x, last.filter)}}
  IN /\ \A j, k \in 1..K : j # k => PageElements(j) \cap PageElements(k) = {}
     /\ UNION {PageElements(k) : k \in 1..K} = matching
     /\ \A k \in 1..K : Cardinality(PageElements(k)) = Len(last.pages[k])

\* C28: for a store state, a filter and a page size L >= 1, the pages
\* getTransactions({limit: L, offset: k * L}) returns for k = 0, 1, 2, ... are
\* pairwise disjoint and together hold every matching transaction exactly
\* once, also when transactions have the same date and createdAt.
C28_PagesPartition ==
  last.op = "getTransactionsPages" => PagesPartition

\* The same, for the stores in which no two transactions have the same date
\* and the same createdAt.
C28_PagesPartitionWithoutTies ==
  (/\ last.op = "getTransactionsPages"
   /\ \A a, b \in transactions :
        a # b => (a.date # b.date \/ a.created_at # b.created_at)) =>
    PagesPartition

\* The reversal just inserted mirrors the transaction `T` in ends and amount.
ReversalMirrors(T) ==
  /\ last'.ret.fromAccountId = T.toAccountId
  /\ last'.ret.toAccountId = T.fromAccountId
  /\ last'.ret.amount = T.amount

\* C29: when an updateTransaction(T.id, ...) or deleteTransaction(T.id) takes
\* effect between reverseTransaction's read of T and its insert, the appended
\* reversal mirrors T as stored at the moment of the insert: T is still
\* stored, and the reversal's fromAccountId, toAccountId and amount equal T's
\* current toAccountId, fromAccountId and amount.
C29_ReversalMirrorsStored ==
  [][(/\ reversing.pc = "read"
      /\ last'.op = "reverseTransaction"
      /\ last'.status = "ok") =>
       (/\ HasTransaction(reversing.id)
        /\ ReversalMirrors(GetTransaction(reversing.id)))]_vars

\* The appended reversal mirrors T as reverseTransaction read it.
C29_ReversalMirrorsRead ==
  [][(/\ reversing.pc = "read"
      /\ last'.op = "reverseTransaction"
      /\ last'.status = "ok") =>
       ReversalMirrors(reversing.original[1])]_vars


====
